---- MODULE Spec2Model ----
(***************************************************************************)
(* A model of the NAAC auto-update pipeline: the website watcher (Change   *)
(* Detector), the document downloader, the version manager and the        *)
(* auto-ingest coordinator that sequences them into one update cycle.     *)
(*                                                                         *)
(* Abstractions.  Hashes (md5 of a URL, sha256 of a file) are modelled as  *)
(* collision-free tags on the small sets of URLs and contents used here.   *)
(* A version label "M.m" is the record [major |-> M, minor |-> m];        *)
(* float() and the "%.1f" formatting are modelled by ParseVersion and      *)
(* FormatVersion over tenths.  datetime.now() is read in two resolutions:  *)
(* `now' (the coarse wall clock the throttle looks at) and `clock' (the   *)
(* fine, strictly increasing reading that stamps a registered version).    *)
(***************************************************************************)
EXTENDS Integers, Sequences, FiniteSets, TLC

\* ------------------------------------------------------------------ bounds
MaxVersions == 2
MaxCycles == 3
MaxRegistrations == 4
MaxDownloads == 4
MaxConcRegistrations == 2
MaxConcDownloads == 2
MaxWatches == 3
MaxTwoCycles == 3
MaxKbDownloads == 3
MaxKbRegistrations == 3
MaxDue == 2
MaxExecRuns == 3
MaxJobRuns == 10
MaxHealthTicks == 1
MaxSeconds == 1

\* --------------------------------------------------------------- constants
\* config: min_check_interval_hours and cleanup_days (`now' counts hours);
\* the cap of the operation history
MinCheckInterval == 6
CleanupDays == 30
CleanupAge == CleanupDays * 24
HistoryCap == 100
UpdateOperationsCap == 500
JobHistoryCap == 1000
HealthWindow == 48
JobHistoryDays == 30

None == "None"
NoPath == <<>>

\* The origin: two documents and two of the source pages of naac_urls, read
\* in the order of that dict.  A page is the list of its document links.
Urls == {"u1", "u2"}
Sources == {"manuals", "criteria_docs"}
SourceOrder == <<"manuals", "criteria_docs">>
SourceOf(u) == IF u = "u1" THEN "manuals" ELSE "criteria_docs"
LinkText(u) == IF u = "u1" THEN "Research Manual" ELSE "Fee Circular"
Link(u, text) == [url |-> u, text |-> text]
\* the usual layout: each document linked once, from its own page
DefaultSite == [s \in Sources |->
                   IF s = "manuals" THEN <<Link("u1", LinkText("u1"))>>
                   ELSE <<Link("u2", LinkText("u2"))>>]
Stamps == {"m1", "m2"}
\* Content-Length is a function of the body; two bodies may share a size.
SizeOf(b) == IF b = 1 THEN "s1" ELSE "s2"

VARIABLES
    origin,              \* the website: published URL -> [bytes, lm, length]
    site,                \* the website: source page -> its document links
    now,                 \* coarse wall clock, in hours
    clock,               \* fine clock: stamps registered versions
    overwrite_existing,  \* config['overwrite_existing']
    document_cache,      \* NAACWebsiteWatcher.document_cache
    files,               \* the download directory: path -> [bytes, complete, mtime]
    download_history,    \* NAACDocumentDownloader.download_history
    current_progress,    \* NAACDocumentDownloader.current_progress
    version_registry,    \* NAACVersionManager.version_registry
    update_operations,   \* NAACVersionManager.update_operations
    versioned_store,     \* copies made by _create_versioned_file
    kb,                  \* the knowledge base (naac_collection metadata)
    operation_history,   \* NAACAutoIngest.operation_history
    report,              \* the report returned by the last cycle, with the phases
                         \* it went through, what it handed to the reconcile and
                         \* when the detector was last invoked
    version_report,      \* the report returned by the last reconcile
    download_call,       \* the last download_documents call: its arguments, what
                         \* each fetch it made did, and what it returned
    watch_call,          \* the last watch_for_updates call and what it returned
    cycles,              \* number of cycles run
    dirty,               \* the origin changed since the last cycle returned
    threads,             \* concurrent reconcile threads (see SpecConc)
    scheduler            \* NAACUpdateScheduler: the APScheduler instance (running,
                         \* its job store, the executions in its pools), the
                         \* job_history, and the last calls with what they returned

vars == <<origin, site, now, clock, overwrite_existing, document_cache, files,
          download_history, current_progress, version_registry,
          update_operations, versioned_store, kb, operation_history, report,
          version_report, download_call, watch_call,
          cycles, dirty, threads, scheduler>>

\* ------------------------------------------------------------ sequences
Last(s) == s[Len(s)]

\* Python dicts are functions on their key set.
Put(f, k, v) == [x \in DOMAIN f \cup {k} |-> IF x = k THEN v ELSE f[x]]
Del(f, k) == [x \in DOMAIN f \ {k} |-> f[x]]
EmptyDict == [x \in {} |-> x]

RECURSIVE SelectSeqBy(_, _)
\* the subsequence of s of the elements in set S
SelectSeqBy(s, S) ==
    IF s = <<>> THEN <<>>
    ELSE IF Head(s) \in S THEN <<Head(s)>> \o SelectSeqBy(Tail(s), S)
         ELSE SelectSeqBy(Tail(s), S)

Perms(n) == {p \in [1..n -> 1..n] : \A i, j \in 1..n : p[i] = p[j] => i = j}

\* --------------------------------------------------------------- watcher
\* _detect_criterion: the first keyword pattern that matches title+url+source
\* ("research" is a criterion-3 keyword; "Fee Circular" matches none).
DetectCriterion(title) == IF title = "Research Manual" THEN "3" ELSE None

\* _generate_title: the link text, stripped, when more than 5 characters of
\* it are left; else the words of the file name of the URL
FileTitle(u) == IF u = "u1" THEN "Manual" ELSE "Circular"
GenerateTitle(link_text, u) == IF link_text = "" THEN FileTitle(u) ELSE link_text

\* _analyze_document_link: the DocumentInfo built from a link and the headers
\* of its HEAD response (Content-Length and Last-Modified may be absent)
AnalyzeLink(u, link_text, org) ==
    [url |-> u,
     title |-> GenerateTitle(link_text, u),
     size |-> IF org[u].length THEN SizeOf(org[u].bytes) ELSE None,
     last_modified |-> org[u].lm,
     criterion |-> DetectCriterion(GenerateTitle(link_text, u))]

\* the DocumentInfo of a document linked as in the usual layout
AnalyzeDocumentLink(u, org) == AnalyzeLink(u, LinkText(u), org)

\* The comparison without the presence guards (what C14 is sensitive to).
IsDocumentUpdatedUnguarded(cached_doc, new_doc) ==
    \/ new_doc.last_modified # cached_doc.last_modified
    \/ new_doc.size # cached_doc.size
    \/ new_doc.title # cached_doc.title

\* _is_document_updated
IsDocumentUpdated(cached_doc, new_doc) ==
    \/ /\ new_doc.last_modified # None /\ cached_doc.last_modified # None
       /\ new_doc.last_modified # cached_doc.last_modified
    \/ /\ new_doc.size # None /\ cached_doc.size # None
       /\ new_doc.size # cached_doc.size
    \/ new_doc.title # cached_doc.title

\* _extract_document_links: the links of a page, in page order (a link to a
\* document the origin does not serve is not there)
ExtractDocumentLinks(page, org) == SelectSeq(page, LAMBDA l : l.url \in DOMAIN org)

RECURSIVE CheckLinks(_, _, _, _)
\* the loop of _check_url_for_documents over the links of one page: a link
\* whose HEAD raises is skipped; the others are classified against the cache
CheckLinks(cache, org, links, head_fail) ==
    IF links = <<>> THEN [new |-> <<>>, updated |-> <<>>]
    ELSE LET l == Head(links)
             rest == CheckLinks(cache, org, Tail(links), head_fail)
             doc_info == AnalyzeLink(l.url, l.text, org)
         IN IF l.url \in head_fail THEN rest
            ELSE IF l.url \notin DOMAIN cache
            THEN [rest EXCEPT !.new = <<doc_info>> \o @]
            ELSE IF IsDocumentUpdated(cache[l.url], doc_info)
            THEN [rest EXCEPT !.updated = <<doc_info>> \o @]
            ELSE rest

\* _check_url_for_documents, for a page that could be fetched
CheckUrlForDocuments(cache, org, st, source, head_fail) ==
    CheckLinks(cache, org, ExtractDocumentLinks(st[source], org), head_fail)

RECURSIVE CheckSources(_, _, _, _, _, _)
\* A watch that gives up at the first source that fails (what C13 is
\* sensitive to).
CheckSourcesAbort(cache, org, st, sources, page_fail, head_fail) ==
    IF sources = <<>> THEN [new |-> <<>>, updated |-> <<>>]
    ELSE IF Head(sources) \in page_fail THEN [new |-> <<>>, updated |-> <<>>]
    ELSE LET rest == CheckSources(cache, org, st, Tail(sources), page_fail, head_fail)
             one == CheckUrlForDocuments(cache, org, st, Head(sources), head_fail)
         IN [new |-> one.new \o rest.new, updated |-> one.updated \o rest.updated]

\* the loop of watch_for_updates over the sources: the lists of the pages that
\* could be fetched, concatenated (the cache is written once, after the loop)
CheckSources(cache, org, st, sources, page_fail, head_fail) ==
    IF sources = <<>> THEN [new |-> <<>>, updated |-> <<>>]
    ELSE LET rest == CheckSources(cache, org, st, Tail(sources), page_fail, head_fail)
         IN IF Head(sources) \in page_fail THEN rest
            ELSE LET one == CheckUrlForDocuments(cache, org, st, Head(sources), head_fail)
                 IN [new |-> one.new \o rest.new, updated |-> one.updated \o rest.updated]

NewDocuments(cache, org, st, page_fail, head_fail) ==
    CheckSources(cache, org, st, SourceOrder, page_fail, head_fail).new

UpdatedDocuments(cache, org, st, page_fail, head_fail) ==
    CheckSources(cache, org, st, SourceOrder, page_fail, head_fail).updated

\* A watcher that forgets what it saw (what C3 is sensitive to).
UpdateDocumentCacheStale(cache, docs) == cache

RECURSIVE UpdateDocumentCache(_, _)
\* _update_document_cache
UpdateDocumentCache(cache, docs) ==
    IF docs = <<>> THEN cache
    ELSE UpdateDocumentCache(Put(cache, Head(docs).url, Head(docs)), Tail(docs))

\* watch_for_updates: one error string per source that could not be fetched
WatchForUpdates(cache, org, st, page_fail, head_fail) ==
    LET new_documents == NewDocuments(cache, org, st, page_fail, head_fail)
        updated_documents == UpdatedDocuments(cache, org, st, page_fail, head_fail)
    IN [result |-> [total_documents_found |-> Len(new_documents) + Len(updated_documents),
                    new_documents |-> new_documents,
                    updated_documents |-> updated_documents,
                    errors |-> page_fail,
                    success |-> page_fail = {}],
        cache |-> UpdateDocumentCache(cache, new_documents \o updated_documents)]

\* ------------------------------------------------------------ downloader
DownloadHistoryCap == 1000
FetchOutcomes == {"ok", "error", "partial"}

\* _sanitize_filename and _get_document_path (organize_by_criterion = True):
\* the criterion directory (or the download directory itself) and the title.
GetDocumentPath(document) == <<document.criterion, document.title>>

\* _download_single_document.  outcome: "ok", "error" (the request raises
\* before the file is opened) or "partial" (the stream raises after open()).
\* error_message: str(e) of the exception caught, None without one.
DownloadSingleDocument(fs, org, t, document, overwrite, outcome) ==
    LET file_path == GetDocumentPath(document)
    IN IF file_path \in DOMAIN fs /\ ~overwrite
       THEN [result |-> [document_info |-> document, success |-> TRUE,
                         file_path |-> file_path, fetched |-> FALSE,
                         error_message |-> None],
             files |-> fs]
       ELSE IF outcome = "ok"
       THEN [result |-> [document_info |-> document, success |-> TRUE,
                         file_path |-> file_path, fetched |-> TRUE,
                         error_message |-> None],
             files |-> Put(fs, file_path, [bytes |-> org[document.url].bytes, complete |-> TRUE, mtime |-> t])]
       ELSE IF outcome = "partial"
       THEN [result |-> [document_info |-> document, success |-> FALSE,
                         file_path |-> NoPath, fetched |-> TRUE,
                         error_message |-> outcome],
             files |-> Put(fs, file_path, [bytes |-> org[document.url].bytes, complete |-> FALSE, mtime |-> t])]
       ELSE [result |-> [document_info |-> document, success |-> FALSE,
                         file_path |-> NoPath, fetched |-> TRUE,
                         error_message |-> outcome],
             files |-> fs]

\* download_documents, lines 120-130: the refs left after the existing files
\* are filtered out
DocumentsToDownload(fs, documents, overwrite) ==
    IF overwrite THEN documents
    ELSE SelectSeq(documents, LAMBDA d : GetDocumentPath(d) \notin DOMAIN fs)

RECURSIVE RunDownloads(_, _, _, _, _, _, _, _)
\* A pool whose first failing task cancels the tasks that have not completed
\* (what C11 is sensitive to).
RunDownloadsAbort(fs, org, t, todo, overwrite, outcome, order, i) ==
    IF i > Len(todo) THEN [results |-> <<>>, files |-> fs]
    ELSE LET one == DownloadSingleDocument(fs, org, t, todo[order[i]], overwrite,
                                           outcome[todo[order[i]].url])
             rest == RunDownloads(one.files, org, t, todo, overwrite, outcome, order, i + 1)
         IN IF one.result.success
            THEN [results |-> <<one.result>> \o rest.results, files |-> rest.files]
            ELSE [results |-> <<one.result>>, files |-> one.files]

\* the pool's tasks, folded in the order order[i], order[i+1], ... in which
\* they complete
RunDownloads(fs, org, t, todo, overwrite, outcome, order, i) ==
    IF i > Len(todo) THEN [results |-> <<>>, files |-> fs]
    ELSE LET one == DownloadSingleDocument(fs, org, t, todo[order[i]], overwrite,
                                           outcome[todo[order[i]].url])
             rest == RunDownloads(one.files, org, t, todo, overwrite, outcome, order, i + 1)
         IN [results |-> <<one.result>> \o rest.results, files |-> rest.files]

RECURSIVE HistoryEntries(_)
HistoryEntries(results) ==
    IF results = <<>> THEN <<>>
    ELSE <<[url |-> Head(results).document_info.url, success |-> Head(results).success]>>
         \o HistoryEntries(Tail(results))

\* _update_download_history
UpdateDownloadHistory(history, results) ==
    LET h == history \o HistoryEntries(results)
    IN IF Len(h) > DownloadHistoryCap
       THEN SubSeq(h, Len(h) - DownloadHistoryCap + 1, Len(h))
       ELSE h

\* download_documents
DownloadDocuments(fs, org, t, history, documents, overwrite, outcome, order) ==
    LET todo == DocumentsToDownload(fs, documents, overwrite)
        run == RunDownloads(fs, org, t, todo, overwrite, outcome, order, 1)
        done == Len(SelectSeq(run.results, LAMBDA r : r.success))
    IN [results |-> run.results,
        submitted |-> {todo[i].url : i \in 1..Len(todo)},
        files |-> run.files,
        progress |-> [total_files |-> Len(documents),
                      completed_files |-> done,
                      failed_files |-> Len(run.results) - done],
        history |-> UpdateDownloadHistory(history, run.results)]

\* -------------------------------------------------------- version manager
NoVersion == [major |-> 0, minor |-> 0]
FirstVersion == [major |-> 1, minor |-> 0]

\* float(v['version']), in tenths
ParseVersion(label) == label.major * 10 + label.minor
\* f"{x:.1f}", from tenths
FormatVersion(tenths) == [major |-> tenths \div 10, minor |-> tenths % 10]

MaxOf(S) == CHOOSE x \in S : \A y \in S : y <= x

\* _generate_document_id: the criterion prefix (when known) and md5(url)[:12]
GenerateDocumentId(doc_info) == <<doc_info.criterion, doc_info.url>>

\* _calculate_file_checksum: sha256 of the bytes on disk
CalculateFileChecksum(fs, file_path) ==
    [bytes |-> fs[file_path].bytes, complete |-> fs[file_path].complete]

\* _get_document_versions
GetDocumentVersions(registry, document_id) ==
    IF document_id \in DOMAIN registry THEN registry[document_id] ELSE <<>>

\* _is_new_version
IsNewVersion(existing_versions, new_checksum) ==
    \A i \in 1..Len(existing_versions) : existing_versions[i].checksum # new_checksum

RECURSIVE SortByTimestamp(_)
\* list.sort(key=timestamp): a stable insertion sort
SortByTimestamp(versions) ==
    IF Len(versions) <= 1 THEN versions
    ELSE LET init == SortByTimestamp(SubSeq(versions, 1, Len(versions) - 1))
             x == Last(versions)
             k == Cardinality({i \in 1..Len(init) : init[i].timestamp <= x.timestamp})
         IN SubSeq(init, 1, k) \o <<x>> \o SubSeq(init, k + 1, Len(init))

\* _get_current_version: the first version flagged current, else the latest
GetCurrentVersion(registry, document_id) ==
    LET versions == GetDocumentVersions(registry, document_id)
        cur == {i \in 1..Len(versions) : versions[i].is_current}
    IN IF cur # {} THEN <<versions[CHOOSE i \in cur : \A j \in cur : i <= j]>>
       ELSE IF versions # <<>> THEN <<Last(SortByTimestamp(versions))>>
       ELSE <<>>

\* list.remove(x): drops the first element equal to x
RemoveFirst(s, x) ==
    LET hits == {i \in 1..Len(s) : s[i] = x}
    IN IF hits = {} THEN s
       ELSE LET k == CHOOSE i \in hits : \A j \in hits : i <= j
            IN SubSeq(s, 1, k - 1) \o SubSeq(s, k + 1, Len(s))

RECURSIVE RemoveVersions(_, _, _)
\* the loop of _cleanup_old_versions: unlink the recorded file_path, drop the entry
RemoveVersions(versions, fs, to_remove) ==
    IF to_remove = <<>> THEN [versions |-> versions, files |-> fs]
    ELSE LET v == Head(to_remove)
             fs1 == IF v.file_path \in DOMAIN fs THEN Del(fs, v.file_path) ELSE fs
         IN RemoveVersions(RemoveFirst(versions, v), fs1, Tail(to_remove))

\* _cleanup_old_versions, on a document's version list: versions[:-max] of the
\* list sorted (in place) by timestamp are removed
CleanupOldVersions(versions, fs) ==
    IF Len(versions) > MaxVersions
    THEN LET sorted == SortByTimestamp(versions)
         IN RemoveVersions(sorted, fs, SubSeq(sorted, 1, Len(sorted) - MaxVersions))
    ELSE [versions |-> versions, files |-> fs]

\* The version manager's state as its methods read and write it.
\*   registry, files (download directory), store (versioned copies), clock, kb,
\*   operations (update_operations)
\* _generate_operation_id: the time to the second, and the length of the log
GenerateOperationId(vs, second) == [timestamp |-> second, n |-> Len(vs.operations)]

Operation(operation_id, type, doc_info, old, new, status) ==
    [operation_id |-> operation_id, operation_type |-> type, document_info |-> doc_info, old_version |-> old,
     new_version |-> new, status |-> status]

\* A registration that does not flag the new version (what C4 is sensitive to).
VersionInfoNotCurrent(version, result, checksum, timestamp) ==
    [version |-> version, file_path |-> result.file_path, checksum |-> checksum,
     timestamp |-> timestamp, is_current |-> FALSE]

VersionInfo(version, result, checksum, timestamp) ==
    [version |-> version, file_path |-> result.file_path, checksum |-> checksum,
     timestamp |-> timestamp, is_current |-> TRUE]

\* _handle_new_document.  copy_ok: whether _create_versioned_file returns
\* (FALSE: shutil.copy2 raises, after the version was appended); second: the
\* second of the wall clock at which the operation is built
HandleNewDocument(vs, document_id, result, file_checksum, copy_ok, second) ==
    LET version_info == VersionInfo(FirstVersion, result, file_checksum, vs.clock)
        registry == Put(vs.registry, document_id,
                        GetDocumentVersions(vs.registry, document_id) \o <<version_info>>)
    IN IF copy_ok
       THEN [vs |-> [vs EXCEPT !.registry = registry, !.clock = @ + 1,
                               !.store = @ \cup {<<document_id, FirstVersion>>}],
             op |-> Operation(GenerateOperationId(vs, second), "new_document",
                              result.document_info, NoVersion, FirstVersion,
                              "completed")]
       ELSE [vs |-> [vs EXCEPT !.registry = registry, !.clock = @ + 1],
             op |-> Operation(GenerateOperationId(vs, second), "new_document",
                              result.document_info, NoVersion, NoVersion, "failed")]

\* lines 236-237: every existing version is flagged not current
ClearCurrent(versions) ==
    [i \in 1..Len(versions) |-> [versions[i] EXCEPT !.is_current = FALSE]]

\* A label computation that does not advance (what C5 is sensitive to).
NextVersionSame(existing_versions) ==
    FormatVersion(MaxOf({ParseVersion(existing_versions[i].version) :
                            i \in 1..Len(existing_versions)}))

\* lines 240-242: max(existing labels) + 0.1, to one decimal
NextVersion(existing_versions) ==
    FormatVersion(MaxOf({ParseVersion(existing_versions[i].version) :
                            i \in 1..Len(existing_versions)}) + 1)

\* line 270: existing_versions is the registry's own list, so after the append
\* (and the cleanup's in-place sort) its last element is read
OldVersionOf(versions_now) == Last(versions_now).version

\* _handle_document_update
HandleDocumentUpdate(vs, document_id, result, file_checksum, copy_ok, second) ==
    LET cleared == ClearCurrent(vs.registry[document_id])
        new_version == NextVersion(cleared)
        version_info == VersionInfo(new_version, result, file_checksum, vs.clock)
        appended == cleared \o <<version_info>>
        cleaned == CleanupOldVersions(appended, vs.files)
    IN IF copy_ok
       THEN [vs |-> [vs EXCEPT !.registry = Put(@, document_id, cleaned.versions),
                               !.files = cleaned.files,
                               !.clock = @ + 1,
                               !.store = @ \cup {<<document_id, new_version>>}],
             op |-> Operation(GenerateOperationId(vs, second), "update_document",
                              result.document_info, OldVersionOf(cleaned.versions),
                              new_version, "completed")]
       ELSE [vs |-> [vs EXCEPT !.registry = Put(@, document_id, appended),
                               !.clock = @ + 1],
             op |-> Operation(GenerateOperationId(vs, second), "update_document",
                              result.document_info, NoVersion, NoVersion, "failed")]

\* _process_single_document (the file exists: its checksum could be computed)
ProcessSingleDocument(vs, result, copy_ok, second) ==
    LET document_id == GenerateDocumentId(result.document_info)
        file_checksum == CalculateFileChecksum(vs.files, result.file_path)
        existing_versions == GetDocumentVersions(vs.registry, document_id)
    IN IF existing_versions = <<>>
       THEN HandleNewDocument(vs, document_id, result, file_checksum, copy_ok, second)
       ELSE IF IsNewVersion(existing_versions, file_checksum)
       THEN HandleDocumentUpdate(vs, document_id, result, file_checksum, copy_ok, second)
       ELSE [vs |-> vs,
             op |-> Operation(GenerateOperationId(vs, second), "no_change",
                              result.document_info, NoVersion, NoVersion, "completed")]

\* ChromaVectorStore.update_naac_version: every entry whose metadata carries
\* version = old_version is marked archived
UpdateNaacVersion(entries, old_version) ==
    {IF e.version = old_version THEN [e EXCEPT !.status = "archived"] ELSE e : e \in entries}

\* _update_knowledge_base, for a completed operation.  ingest_ok: whether
\* ingest_single_document returns status 'success' for a file that exists
\* (it raises FileNotFoundError for one that does not).
UpdateKnowledgeBase(vs, operation, ingest_ok) ==
    LET document_id == GenerateDocumentId(operation.document_info)
        current_version == GetCurrentVersion(vs.registry, document_id)
    IN IF current_version = <<>>
       THEN [vs |-> vs, kb_update |-> <<>>, calls |-> <<>>]
       ELSE
       LET file_path == current_version[1].file_path
           archive == /\ operation.operation_type = "update_document"
                      /\ operation.old_version # NoVersion
           kb1 == IF archive THEN UpdateNaacVersion(vs.kb, operation.old_version) ELSE vs.kb
           version == IF operation.new_version # NoVersion
                      THEN operation.new_version ELSE FirstVersion
           calls == (IF archive
                     THEN <<[call |-> "archive", document_id |-> document_id,
                             version |-> operation.old_version]>>
                     ELSE <<>>)
                    \o <<[call |-> "ingest", document_id |-> document_id,
                          version |-> version]>>
       IN IF file_path \in DOMAIN vs.files /\ ingest_ok
          THEN [vs |-> [vs EXCEPT !.kb = kb1 \cup {[document_id |-> document_id,
                                                    version |-> version,
                                                    status |-> "active"]}],
                kb_update |-> <<[document_id |-> document_id,
                                 operation_type |-> operation.operation_type,
                                 version |-> version]>>,
                calls |-> calls]
          ELSE [vs |-> [vs EXCEPT !.kb = kb1], kb_update |-> <<>>, calls |-> calls]

EmptyUpdateReport(n) ==
    [total_documents |-> n, new_documents |-> 0, updated_documents |-> 0,
     failed_operations |-> 0, operations |-> <<>>, knowledge_base_updates |-> <<>>,
     kb_calls |-> <<>>]

\* the body of the loop of process_document_updates, for one result.
\* io = [copy_ok, ingest_ok, second]: what the file system and the ingestion
\* do, and the second of the wall clock (counted from the start of the call)
\* in which the result is processed.
ProcessResult(vs, update_report, result, io) ==
    IF ~result.success \/ result.file_path = NoPath
    THEN [vs |-> vs, report |-> [update_report EXCEPT !.failed_operations = @ + 1]]
    ELSE IF result.file_path \notin DOMAIN vs.files
    THEN [vs |-> vs, report |-> [update_report EXCEPT !.failed_operations = @ + 1]]
    ELSE
    LET p == ProcessSingleDocument(vs, result, io.copy_ok, io.second)
        r1 == [update_report EXCEPT !.operations = Append(@, p.op)]
    IN IF p.op.status = "completed"
       THEN LET r2 == [r1 EXCEPT
                         !.new_documents =
                             IF p.op.operation_type = "new_document" THEN @ + 1 ELSE @,
                         !.updated_documents =
                             IF p.op.operation_type = "update_document" THEN @ + 1 ELSE @]
                k == UpdateKnowledgeBase(p.vs, p.op, io.ingest_ok)
            IN [vs |-> k.vs,
                report |-> [r2 EXCEPT !.knowledge_base_updates = @ \o k.kb_update,
                                      !.kb_calls = @ \o k.calls]]
       ELSE [vs |-> p.vs, report |-> [r1 EXCEPT !.failed_operations = @ + 1]]

RECURSIVE ProcessResults(_, _, _, _, _)
ProcessResults(vs, update_report, download_results, io, i) ==
    IF i > Len(download_results) THEN [vs |-> vs, report |-> update_report]
    ELSE LET one == ProcessResult(vs, update_report, download_results[i], io[i])
         IN ProcessResults(one.vs, one.report, download_results, io, i + 1)

\* process_document_updates
ProcessDocumentUpdates(vs, download_results, io) ==
    ProcessResults(vs, EmptyUpdateReport(Len(download_results)), download_results, io, 1)

\* _save_update_operations: the log is cut to its last UpdateOperationsCap
\* entries and written out (nothing in the class appends to it)
SaveUpdateOperations(operations) ==
    IF Len(operations) > UpdateOperationsCap
    THEN SubSeq(operations, Len(operations) - UpdateOperationsCap + 1, Len(operations))
    ELSE operations

\* A rollback that flags the target and leaves the other flags alone.
RollbackToVersionKeep(registry, document_id, target_version) ==
    LET versions == GetDocumentVersions(registry, document_id)
        hits == {i \in 1..Len(versions) : versions[i].version = target_version}
    IN IF hits = {} THEN [ok |-> FALSE, registry |-> registry]
       ELSE LET k == CHOOSE i \in hits : \A j \in hits : i <= j
            IN [ok |-> TRUE,
                registry |-> Put(registry, document_id,
                                 [versions EXCEPT ![k].is_current = TRUE])]

\* rollback_to_version: [ok, registry]
RollbackToVersion(registry, document_id, target_version) ==
    LET versions == GetDocumentVersions(registry, document_id)
        hits == {i \in 1..Len(versions) : versions[i].version = target_version}
    IN IF hits = {} THEN [ok |-> FALSE, registry |-> registry]
       ELSE LET k == CHOOSE i \in hits : \A j \in hits : i <= j
            IN [ok |-> TRUE,
                registry |-> Put(registry, document_id,
                                 [i \in 1..Len(versions) |->
                                     [versions[i] EXCEPT !.is_current = (i = k)]])]

\* cleanup_old_downloads: every file of the download directory whose mtime is
\* before the cutoff is deleted
CleanupOldDownloads(fs, t) ==
    [p \in {q \in DOMAIN fs : ~(fs[q].mtime < t - CleanupAge)} |-> fs[p]]

\* ----------------------------------------------------------- coordinator
\* A throttle that counts failed cycles too (what C18 is sensitive to).
IsRecentCheckAnyOutcome(history, t) ==
    \E i \in 1..Len(history) : history[i].timestamp > t - MinCheckInterval

\* _is_recent_check
IsRecentCheck(history, t) ==
    \E i \in 1..Len(history) :
        /\ history[i].success
        /\ history[i].documents_detected >= 0
        /\ history[i].timestamp > t - MinCheckInterval

\* A history that keeps its first HistoryCap entries (what C17 is sensitive
\* to).
SaveOperationToHistoryHead(history, entry) ==
    LET h == Append(history, entry)
    IN IF Len(h) > HistoryCap THEN SubSeq(h, 1, HistoryCap) ELSE h

\* _save_operation_to_history
SaveOperationToHistory(history, entry) ==
    LET h == Append(history, entry)
    IN IF Len(h) > HistoryCap THEN SubSeq(h, Len(h) - HistoryCap + 1, Len(h)) ELSE h

\* _run_watch_phase: the throttled result, or the watcher's
RunWatchPhase(cache, history, org, st, t, force_recheck, page_fail) ==
    IF ~force_recheck /\ IsRecentCheck(history, t)
    THEN [result |-> [total_documents_found |-> 0, new_documents |-> <<>>,
                      updated_documents |-> <<>>, errors |-> {}, success |-> TRUE],
          cache |-> cache, watched |-> FALSE]
    ELSE LET w == WatchForUpdates(cache, org, st, page_fail, {})
         IN [result |-> w.result, cache |-> w.cache, watched |-> TRUE]

\* lines 167-173
FilterByCriteria(documents, specific_criteria) ==
    IF specific_criteria # {}
    THEN SelectSeq(documents, LAMBDA d : d.criterion \in specific_criteria)
    ELSE documents

\* An orchestrator that does not look at the detector's verdict (what C16 is
\* sensitive to).
CyclePathNoAbort(watch_result, documents_to_process) ==
    IF documents_to_process = <<>> THEN "nothing_to_process" ELSE "process"

\* An orchestrator without the early return on an empty list (what C19 is
\* sensitive to).
CyclePathNoEarlyReturn(watch_result, documents_to_process) ==
    IF ~watch_result.success THEN "watch_failed" ELSE "process"

\* lines 158-178: which way run_full_update_cycle goes after the watch phase
CyclePath(watch_result, documents_to_process) ==
    IF ~watch_result.success THEN "watch_failed"
    ELSE IF documents_to_process = <<>> THEN "nothing_to_process"
    ELSE "process"

\* An orchestrator that hands every outcome to the version manager (what C20
\* is sensitive to).
SuccessfulDownloadsAll(download_results) == download_results

\* line 191
SuccessfulDownloads(download_results) ==
    SelectSeq(download_results, LAMBDA r : r.success)

EmptyWatchResult ==
    [total_documents_found |-> 0, new_documents |-> <<>>, updated_documents |-> <<>>,
     errors |-> {}, success |-> TRUE]

EmptyReport ==
    [force_recheck |-> FALSE, specific_criteria |-> {}, watched |-> FALSE,
     last_watch |-> <<>>,
     timestamp |-> 0,
     watch_result |-> [total_documents_found |-> 0, new_documents |-> <<>>,
                       updated_documents |-> <<>>, errors |-> {}, success |-> TRUE],
     documents_detected |-> 0, new_documents_found |-> 0, updated_documents_found |-> 0,
     documents_to_process |-> <<>>,
     download_attempts |-> 0, successful_downloads |-> 0, failed_downloads |-> 0,
     download_results |-> <<>>, version_input |-> <<>>,
     phases |-> <<>>,
     new_versions_created |-> 0, documents_updated |-> 0,
     knowledge_base_updates |-> 0, ingestion_failures |-> 0,
     reconciled |-> FALSE,
     success |-> FALSE, error_messages |-> {}]

HistoryEntry(r) ==
    [timestamp |-> r.timestamp, success |-> r.success,
     documents_detected |-> r.documents_detected]

\* ------------------------------------------------------------- scheduler
\* The APScheduler instance is modelled by what its calls are documented to
\* do: the job store is the list of its jobs (a job is paused when it has no
\* next run time); get_job returns None for an unknown id; remove_job,
\* pause_job and resume_job raise JobLookupError for one; add_job raises
\* ConflictingIdError for an id in use unless replace_existing is set, and
\* then replaces the job where it stands.
JobIds == {"daily_naac_update", "interval_naac_update", "weekly_maintenance",
           "daily_health_check"}

\* job_defaults of the scheduler, and max_instances of every add_job call
JobDefaults == [coalesce |-> TRUE, max_instances |-> 1]

\* the job an add_job call builds: it is given a next run time (enabled)
Job(id, func, trigger) == [id |-> id, func |-> func, trigger |-> trigger, enabled |-> TRUE]

\* scheduler.get_job(job_id): the places of the job in the store
GetJob(jobs, job_id) == {i \in 1..Len(jobs) : jobs[i].id = job_id}

\* scheduler.remove_job(job_id); ok = FALSE: it raised
StoreRemoveJob(jobs, job_id) ==
    IF GetJob(jobs, job_id) = {} THEN [ok |-> FALSE, jobs |-> jobs]
    ELSE [ok |-> TRUE, jobs |-> SelectSeq(jobs, LAMBDA j : j.id # job_id)]

\* An add_job that stores the job beside one of the same id.
StoreAddJobDuplicate(jobs, job, replace_existing) ==
    [ok |-> TRUE, jobs |-> Append(jobs, job)]

\* scheduler.add_job(..., id, replace_existing); ok = FALSE: it raised
StoreAddJob(jobs, job, replace_existing) ==
    IF GetJob(jobs, job.id) = {} THEN [ok |-> TRUE, jobs |-> Append(jobs, job)]
    ELSE IF replace_existing
    THEN [ok |-> TRUE,
          jobs |-> [i \in 1..Len(jobs) |-> IF jobs[i].id = job.id THEN job ELSE jobs[i]]]
    ELSE [ok |-> FALSE, jobs |-> jobs]

\* schedule_daily_update(hour, minute), the time of day written "hh:mm"
ScheduleDailyUpdate(jobs, hour) ==
    LET job_id == "daily_naac_update"
        removed == IF GetJob(jobs, job_id) # {} THEN StoreRemoveJob(jobs, job_id).jobs
                   ELSE jobs
    IN StoreAddJob(removed, Job(job_id, "_run_daily_update", <<"cron", hour>>), TRUE)

\* schedule_interval_update(hours), the interval written as a string
ScheduleIntervalUpdate(jobs, hours) ==
    LET job_id == "interval_naac_update"
        removed == IF GetJob(jobs, job_id) # {} THEN StoreRemoveJob(jobs, job_id).jobs
                   ELSE jobs
    IN StoreAddJob(removed, Job(job_id, "_run_interval_update", <<"interval", hours>>), TRUE)

\* schedule_maintenance_tasks: both jobs are added, replacing what is there
ScheduleMaintenanceTasks(jobs) ==
    LET weekly == StoreAddJob(jobs, Job("weekly_maintenance", "_run_maintenance",
                                        <<"cron", "sun">>), TRUE)
    IN IF ~weekly.ok THEN weekly
       ELSE StoreAddJob(weekly.jobs, Job("daily_health_check", "_run_health_check",
                                         <<"cron", "daily">>), TRUE)

\* A pause that flips the job, as a toggle would.
PauseJobToggle(jobs, job_id) ==
    IF GetJob(jobs, job_id) = {} THEN [ok |-> FALSE, jobs |-> jobs]
    ELSE [ok |-> TRUE,
          jobs |-> [i \in 1..Len(jobs) |->
                       IF jobs[i].id = job_id THEN [jobs[i] EXCEPT !.enabled = ~@]
                       ELSE jobs[i]]]

\* pause_job(job_id): the job loses its next run time
PauseJob(jobs, job_id) ==
    IF GetJob(jobs, job_id) = {} THEN [ok |-> FALSE, jobs |-> jobs]
    ELSE [ok |-> TRUE,
          jobs |-> [i \in 1..Len(jobs) |->
                       IF jobs[i].id = job_id THEN [jobs[i] EXCEPT !.enabled = FALSE]
                       ELSE jobs[i]]]

\* resume_job(job_id): the next run time is computed from the trigger (a cron
\* or interval trigger always has one)
ResumeJob(jobs, job_id) ==
    IF GetJob(jobs, job_id) = {} THEN [ok |-> FALSE, jobs |-> jobs]
    ELSE [ok |-> TRUE,
          jobs |-> [i \in 1..Len(jobs) |->
                       IF jobs[i].id = job_id THEN [jobs[i] EXCEPT !.enabled = TRUE]
                       ELSE jobs[i]]]

\* remove_job(job_id)
RemoveJob(jobs, job_id) == StoreRemoveJob(jobs, job_id)

\* _setup_default_jobs
SetupDefaultJobs(jobs) ==
    LET existing_jobs == {jobs[i].id : i \in 1..Len(jobs)}
        daily == IF "daily_naac_update" \notin existing_jobs
                 THEN ScheduleDailyUpdate(jobs, "02:00").jobs ELSE jobs
    IN IF "weekly_maintenance" \notin existing_jobs
          \/ "daily_health_check" \notin existing_jobs
       THEN ScheduleMaintenanceTasks(daily).jobs
       ELSE daily

NoCall == [op |-> None, arg |-> None, ok |-> TRUE, repeated |-> FALSE]
NoFire == [job_id |-> None, due |-> 0, busy |-> FALSE, runs |-> 0]

\* NAACUpdateScheduler.__init__ on a fresh database and without a job_history
\* file.  instances: the executions of each job running in the pools.
NewScheduler ==
    [running |-> FALSE, jobs |-> <<>>, executions |-> <<>>,
     job_history |-> <<>>, last_call |-> NoCall, before_stop |-> <<>>,
     last_fire |-> NoFire, status |-> <<>>]

\* executor._instances[job_id]: the executions of the job that are running
Instances(executions, job_id) ==
    Cardinality({k \in 1..Len(executions) : executions[k].job_id = job_id})

\* A pool that takes every submission.
SubmitJobUnlimited(executions, job, due) ==
    [busy |-> FALSE, runs |-> 1,
     executions |-> Append(executions, [job_id |-> job.id, func |-> job.func, runs_left |-> 1])]

\* The scheduler finds `due' run times of the job have come: with coalesce it
\* keeps the last of them; the executor refuses the submission when
\* max_instances executions of the job are running, else it starts one that
\* calls the function once per run time kept.
SubmitJob(executions, job, due) ==
    LET runs == IF JobDefaults.coalesce THEN 1 ELSE due
    IN IF Instances(executions, job.id) >= JobDefaults.max_instances
       THEN [busy |-> TRUE, runs |-> 0, executions |-> executions]
       ELSE [busy |-> FALSE, runs |-> runs,
             executions |-> Append(executions, [job_id |-> job.id, func |-> job.func,
                                                runs_left |-> runs])]

\* _log_job_execution
LogJobExecution(job_history, job_id, job_type, success, t) ==
    LET h == Append(job_history, [timestamp |-> t, job_id |-> job_id,
                                  job_type |-> job_type, success |-> success])
    IN IF Len(h) > JobHistoryCap
       THEN SubSeq(h, Len(h) - JobHistoryCap + 1, Len(h)) ELSE h

\* _run_maintenance: the entries older than JobHistoryDays are dropped, the
\* run is logged
RunMaintenance(job_history, t) ==
    LogJobExecution(SelectSeq(job_history,
                              LAMBDA e : e.timestamp > t - JobHistoryDays * 24),
                    "maintenance", "maintenance", TRUE, t)

\* get_update_status()['system_status'] and len(['recent_operations']) > 0
SystemStatus(history) ==
    IF \E i \in 1..Len(history) : history[i].success THEN "healthy" ELSE "needs_attention"

\* _run_health_check
RunHealthCheck(job_history, history, t) ==
    LogJobExecution(job_history, "health_check", "health_check",
                    SystemStatus(history) = "healthy" /\ Len(history) > 0, t)

\* A health check that reports 'unknown' without recent executions.
CheckSystemHealthUnknown(running, job_history, t) ==
    LET recent_jobs == SelectSeq(job_history, LAMBDA e : e.timestamp > t - HealthWindow)
        successful_jobs == SelectSeq(recent_jobs, LAMBDA e : e.success)
    IN IF ~running THEN "critical"
       ELSE IF recent_jobs = <<>> THEN "unknown"
       ELSE IF 10 * Len(successful_jobs) >= 9 * Len(recent_jobs) THEN "healthy"
       ELSE IF 10 * Len(successful_jobs) >= 7 * Len(recent_jobs) THEN "warning"
       ELSE "critical"

\* _check_system_health: success_rate >= 0.9 and >= 0.7, in tenths
CheckSystemHealth(running, job_history, t) ==
    LET recent_jobs == SelectSeq(job_history, LAMBDA e : e.timestamp > t - HealthWindow)
        successful_jobs == SelectSeq(recent_jobs, LAMBDA e : e.success)
    IN IF ~running THEN "critical"
       ELSE IF recent_jobs = <<>> THEN "warning"
       ELSE IF 10 * Len(successful_jobs) >= 9 * Len(recent_jobs) THEN "healthy"
       ELSE IF 10 * Len(successful_jobs) >= 7 * Len(recent_jobs) THEN "warning"
       ELSE "critical"

\* get_job_list (job_id, enabled, last_run and last_result of each
\* ScheduledJob): the last history entry filed under the job's id gives
\* last_run (its 'timestamp') and last_result (its 'status', None for an
\* entry without that key)
GetJobList(jobs, job_history) ==
    [i \in 1..Len(jobs) |->
        LET h == SelectSeq(job_history, LAMBDA e : e.job_id = jobs[i].id)
        IN [job_id |-> jobs[i].id,
            enabled |-> jobs[i].enabled,
            last_run |-> IF h # <<>> THEN <<Last(h).timestamp>> ELSE <<>>,
            last_result |-> IF h # <<>> /\ "status" \in DOMAIN Last(h)
                            THEN <<Last(h).status>> ELSE <<>>]]

\* get_scheduler_status (is_running and system_health of the SchedulerStatus)
GetSchedulerStatus(s, t) ==
    [is_running |-> s.running,
     system_health |-> CheckSystemHealth(s.running, s.job_history, t)]

\* ---------------------------------------------------------------- actions
VmState == [registry |-> version_registry, files |-> files, store |-> versioned_store,
            clock |-> clock, kb |-> kb, operations |-> update_operations]

Threads == {"t1", "t2"}
Idle == [pc |-> "idle", result |-> <<>>, file_checksum |-> <<>>,
         new_version |-> NoVersion, op |-> <<>>]

Init ==
    /\ origin = EmptyDict
    /\ site = DefaultSite
    /\ now = 0
    /\ clock = 0
    /\ overwrite_existing = FALSE
    /\ document_cache = EmptyDict
    /\ files = EmptyDict
    /\ download_history = <<>>
    /\ current_progress = [total_files |-> 0, completed_files |-> 0, failed_files |-> 0]
    /\ version_registry = EmptyDict
    /\ update_operations = <<>>
    /\ versioned_store = {}
    /\ kb = {}
    /\ operation_history = <<>>
    /\ report = EmptyReport
    /\ version_report = EmptyUpdateReport(0)
    /\ download_call = [documents |-> <<>>, overwrite |-> FALSE, outcome |-> EmptyDict,
                        results |-> <<>>]
    /\ watch_call = [calls |-> 0, page_fail |-> {}, head_fail |-> {},
                     result |-> EmptyWatchResult]
    /\ cycles = 0
    /\ dirty = FALSE
    /\ threads = [t \in Threads |-> Idle]
    /\ scheduler = NewScheduler

\* The origin publishes a document, or republishes one with another body
\* and/or another Last-Modified.
Publish(u, d) ==
    /\ cycles < MaxCycles
    /\ IF u \in DOMAIN origin THEN origin[u] # d ELSE TRUE
    /\ origin' = Put(origin, u, d)
    /\ dirty' = TRUE
    /\ UNCHANGED <<site, now, clock, overwrite_existing, document_cache, files,
                   download_history, current_progress, version_registry,
                   update_operations, versioned_store, kb, operation_history,
                   report, version_report, download_call, watch_call, cycles,
                   threads, scheduler>>

\* rollback_to_version(document_id, target_version)
Rollback(document_id, target_version) ==
    /\ version_registry' = RollbackToVersion(version_registry, document_id,
                                             target_version).registry
    /\ UNCHANGED <<origin, site, now, clock, overwrite_existing, document_cache,
                   files, download_history, current_progress, update_operations,
                   versioned_store, kb, operation_history, report, version_report,
                   download_call, watch_call, cycles, dirty, threads, scheduler>>

\* The pages are edited: links are added, repeated or given another text.
Relink(st) ==
    /\ st # site
    /\ site' = st
    /\ UNCHANGED <<origin, now, clock, overwrite_existing, document_cache, files,
                   download_history, current_progress, version_registry,
                   update_operations, versioned_store, kb, operation_history,
                   report, version_report, download_call, watch_call, cycles,
                   dirty, threads, scheduler>>

\* watch_for_updates(check_all_urls = True), called on its own.
\*   page_fail: the source pages whose fetch raises; head_fail: the documents
\*   whose HEAD request raises.
WatchForUpdatesCall(page_fail, head_fail) ==
    /\ \E w \in {WatchForUpdates(document_cache, origin, site, page_fail, head_fail)} :
          /\ document_cache' = w.cache
          /\ watch_call' = [calls |-> watch_call.calls + 1, page_fail |-> page_fail,
                            head_fail |-> head_fail, result |-> w.result]
    /\ UNCHANGED <<origin, site, now, clock, overwrite_existing, files,
                   download_history, current_progress, version_registry,
                   update_operations, versioned_store, kb, operation_history,
                   report, version_report, download_call, cycles, dirty, threads, scheduler>>

\* download_documents(documents, overwrite), called on its own while the
\* origin serves org.
\*   outcome: what each fetch does; order: the order in which the pool's tasks
\*   complete.
DownloadDocumentsCall(org, documents, overwrite, outcome, order) ==
    /\ \E d \in {DownloadDocuments(files, org, now, download_history, documents,
                                   overwrite, outcome, order)} :
          /\ files' = d.files
          /\ download_history' = d.history
          /\ current_progress' = d.progress
          /\ download_call' = [documents |-> documents, overwrite |-> overwrite,
                               outcome |-> [u \in d.submitted |-> outcome[u]],
                               results |-> d.results]
    /\ origin' = org
    /\ dirty' = (dirty \/ org # origin)
    /\ UNCHANGED <<site, now, clock, overwrite_existing, document_cache,
                   version_registry, update_operations, versioned_store, kb,
                   operation_history, report, version_report, watch_call, cycles,
                   threads, scheduler>>

\* The successful download result of a document whose file is on disk.
ResultOf(u) ==
    [document_info |-> AnalyzeDocumentLink(u, origin), success |-> TRUE,
     file_path |-> GetDocumentPath(AnalyzeDocumentLink(u, origin)), fetched |-> TRUE,
     error_message |-> None]

Downloaded(u) ==
    /\ u \in DOMAIN origin
    /\ GetDocumentPath(AnalyzeDocumentLink(u, origin)) \in DOMAIN files
    /\ files[GetDocumentPath(AnalyzeDocumentLink(u, origin))].complete

\* process_document_updates(download_results), called on its own with the
\* successful results of the documents of batch.  io[i]: what the copy and the
\* ingestion of the i-th result do.
ProcessDocumentUpdatesCall(batch, io) ==
    /\ clock < MaxRegistrations
    /\ \A i \in 1..Len(batch) : Downloaded(batch[i])
    /\ \E v \in {ProcessDocumentUpdates(VmState, [i \in 1..Len(batch) |-> ResultOf(batch[i])],
                                        io)} :
          /\ version_registry' = v.vs.registry
          /\ files' = v.vs.files
          /\ versioned_store' = v.vs.store
          /\ clock' = v.vs.clock
          /\ kb' = v.vs.kb
          /\ version_report' = v.report
    /\ update_operations' = SaveUpdateOperations(update_operations)
    /\ UNCHANGED <<origin, site, now, overwrite_existing, document_cache,
                   download_history, current_progress,
                   operation_history, report, download_call, watch_call, cycles,
                   dirty, threads, scheduler>>

\* The part of run_full_update_cycle after a successful watch phase that left
\* documents to process: download, reconcile, clean up.
\*   t: the time; outcome: what each fetch does; order: the order in which the
\*   pool's tasks complete; io[i]: what the copy and the ingestion of the i-th
\*   successful download do.
CycleTail(r0, t, documents_to_process, outcome, order, io) ==
    \E d \in {DownloadDocuments(files, origin, t, download_history,
                                documents_to_process, overwrite_existing, outcome, order)} :
    \E successful \in {SuccessfulDownloads(d.results)} :
    \E v \in {IF successful # <<>>
              THEN ProcessDocumentUpdates([VmState EXCEPT !.files = d.files], successful, io)
              ELSE [vs |-> [VmState EXCEPT !.files = d.files], report |-> version_report]} :
       /\ download_history' = d.history
       /\ current_progress' = d.progress
       /\ download_call' = [documents |-> documents_to_process,
                            overwrite |-> overwrite_existing,
                            outcome |-> [u \in d.submitted |-> outcome[u]],
                            results |-> d.results]
       /\ version_registry' = v.vs.registry
       /\ versioned_store' = v.vs.store
       /\ clock' = v.vs.clock
       /\ kb' = v.vs.kb
       /\ version_report' = v.report
       /\ update_operations' = IF successful # <<>>
                               THEN SaveUpdateOperations(update_operations)
                               ELSE update_operations
       /\ files' = CleanupOldDownloads(v.vs.files, t)
       /\ report' = [r0 EXCEPT
               !.documents_to_process = documents_to_process,
               !.download_results = d.results,
               !.download_attempts = Len(documents_to_process),
               !.successful_downloads =
                   Len(SelectSeq(d.results, LAMBDA r : r.success)),
               !.failed_downloads =
                   Len(SelectSeq(d.results, LAMBDA r : ~r.success)),
               !.reconciled = (successful # <<>>),
               !.version_input = successful,
               !.phases = <<"watching", "downloading">>
                          \o (IF successful # <<>> THEN <<"reconciling">> ELSE <<>>)
                          \o <<"cleaning_up">>,
               !.new_versions_created =
                   IF successful # <<>> THEN v.report.new_documents ELSE 0,
               !.documents_updated =
                   IF successful # <<>> THEN v.report.updated_documents ELSE 0,
               !.knowledge_base_updates =
                   IF successful # <<>> THEN Len(v.report.knowledge_base_updates) ELSE 0,
               !.ingestion_failures =
                   IF successful # <<>> THEN v.report.failed_operations ELSE 0,
               !.success = TRUE]

\* run_full_update_cycle(force_recheck, specific_criteria), begun dt after the
\* last event (the caller says what becomes of the scheduler).  page_fail: the source pages whose fetch raises; fetch_outcomes
\* and ios: the fetch outcomes and the [copy_ok, ingest_ok] pairs that the
\* environment may produce.
RunFullUpdateCycle(dt, force_recheck, specific_criteria, page_fail, fetch_outcomes, ios) ==
    /\ cycles < MaxCycles
    /\ cycles' = cycles + 1
    /\ now' = now + dt
    /\ dirty' = FALSE
    /\ \E w \in {RunWatchPhase(document_cache, operation_history, origin, site,
                               now + dt, force_recheck, page_fail)} :
       \E r0 \in {[EmptyReport EXCEPT
                    !.force_recheck = force_recheck,
                    !.specific_criteria = specific_criteria,
                    !.watched = w.watched,
                    !.last_watch = IF w.watched THEN <<now + dt>>
                                   ELSE report.last_watch,
                    !.timestamp = now + dt,
                    !.phases = <<"watching">>,
                    !.watch_result = w.result]} :
       \E documents_to_process \in
               {FilterByCriteria(w.result.new_documents \o w.result.updated_documents,
                                 specific_criteria)} :
       \E todo \in {DocumentsToDownload(files, documents_to_process, overwrite_existing)} :
       \E path \in {CyclePath(w.result, documents_to_process)} :
          /\ ~w.watched => page_fail = {}
          /\ document_cache' = w.cache
          /\ IF path = "watch_failed"
             THEN /\ report' = [r0 EXCEPT !.error_messages = w.result.errors]
                  /\ UNCHANGED <<files, download_history, current_progress,
                                 version_registry, versioned_store, clock, kb,
                                 version_report, update_operations, download_call>>
             ELSE IF path = "nothing_to_process"
             THEN /\ report' = [r0 EXCEPT
                        !.documents_detected = w.result.total_documents_found,
                        !.new_documents_found = Len(w.result.new_documents),
                        !.updated_documents_found = Len(w.result.updated_documents),
                        !.success = TRUE]
                  /\ UNCHANGED <<files, download_history, current_progress,
                                 version_registry, versioned_store, clock, kb,
                                 version_report, update_operations, download_call>>
             ELSE \E outcome \in [{todo[i].url : i \in 1..Len(todo)} -> fetch_outcomes] :
                  \E order \in Perms(Len(todo)) :
                  \E io \in [1..Cardinality({u \in DOMAIN outcome : outcome[u] = "ok"})
                               -> ios] :
                      CycleTail([r0 EXCEPT
                                   !.documents_detected = w.result.total_documents_found,
                                   !.new_documents_found = Len(w.result.new_documents),
                                   !.updated_documents_found =
                                       Len(w.result.updated_documents)],
                                now + dt, documents_to_process, outcome, order, io)
          /\ operation_history' = SaveOperationToHistory(operation_history, HistoryEntry(report'))
    /\ UNCHANGED <<origin, site, overwrite_existing, watch_call, threads>>

\* ------------------------------------------- reconcile, statement by statement
\* process_document_updates run by a thread for one download result, one
\* statement (or loop) of _process_single_document and its handlers per step.
\* No lock guards the registry: the steps of two threads interleave.
ThreadFrame == <<origin, site, now, overwrite_existing, document_cache,
                 download_history, current_progress, update_operations,
                 operation_history, report, download_call, watch_call, cycles, dirty,
                 scheduler>>

\* lines 144-161: the id, the checksum, the lookup and the branch
ProcessBegin(t, u) ==
    /\ threads[t].pc = "idle"
    /\ clock < MaxConcRegistrations
    /\ Downloaded(u)
    /\ LET result == ResultOf(u)
           document_id == GenerateDocumentId(result.document_info)
           file_checksum == CalculateFileChecksum(files, result.file_path)
           existing_versions == GetDocumentVersions(version_registry, document_id)
       IN threads' = [threads EXCEPT ![t] =
              [Idle EXCEPT !.result = <<result>>,
                           !.file_checksum = <<file_checksum>>,
                           !.pc = IF existing_versions = <<>> THEN "new_store"
                                  ELSE IF IsNewVersion(existing_versions, file_checksum)
                                  THEN "update_mark" ELSE "no_change"]]
    /\ UNCHANGED <<version_registry, files, versioned_store, clock, kb, version_report>>
    /\ UNCHANGED ThreadFrame

DocumentIdOf(t) == GenerateDocumentId(threads[t].result[1].document_info)

\* lines 181-198: the version "1.0" is built and appended
NewStore(t) ==
    /\ threads[t].pc = "new_store"
    /\ version_registry' =
           Put(version_registry, DocumentIdOf(t),
               GetDocumentVersions(version_registry, DocumentIdOf(t))
               \o <<VersionInfo(FirstVersion, threads[t].result[1],
                                threads[t].file_checksum[1], clock)>>)
    /\ clock' = clock + 1
    /\ threads' = [threads EXCEPT ![t].pc = "new_copy"]
    /\ UNCHANGED <<files, versioned_store, kb, version_report>>
    /\ UNCHANGED ThreadFrame

\* lines 201-223: the copy, and the operation that results
NewCopy(t, copy_ok, second) ==
    /\ threads[t].pc = "new_copy"
    /\ versioned_store' = IF copy_ok
                          THEN versioned_store \cup {<<DocumentIdOf(t), FirstVersion>>}
                          ELSE versioned_store
    /\ threads' = [threads EXCEPT
           ![t].pc = "finish",
           ![t].op = <<Operation(GenerateOperationId(VmState, second), "new_document",
                                 threads[t].result[1].document_info, NoVersion,
                                 IF copy_ok THEN FirstVersion ELSE NoVersion,
                                 IF copy_ok THEN "completed" ELSE "failed")>>]
    /\ UNCHANGED <<version_registry, files, clock, kb, version_report>>
    /\ UNCHANGED ThreadFrame

\* lines 236-237
UpdateMark(t) ==
    /\ threads[t].pc = "update_mark"
    /\ version_registry' = [version_registry EXCEPT
                               ![DocumentIdOf(t)] = ClearCurrent(@)]
    /\ threads' = [threads EXCEPT ![t].pc = "update_number"]
    /\ UNCHANGED <<files, versioned_store, clock, kb, version_report>>
    /\ UNCHANGED ThreadFrame

\* lines 240-242
UpdateNumber(t) ==
    /\ threads[t].pc = "update_number"
    /\ threads' = [threads EXCEPT
           ![t].pc = "update_append",
           ![t].new_version = NextVersion(version_registry[DocumentIdOf(t)])]
    /\ UNCHANGED <<version_registry, files, versioned_store, clock, kb, version_report>>
    /\ UNCHANGED ThreadFrame

\* lines 245-257
UpdateAppend(t) ==
    /\ threads[t].pc = "update_append"
    /\ version_registry' = [version_registry EXCEPT
           ![DocumentIdOf(t)] =
               @ \o <<VersionInfo(threads[t].new_version, threads[t].result[1],
                                  threads[t].file_checksum[1], clock)>>]
    /\ clock' = clock + 1
    /\ threads' = [threads EXCEPT ![t].pc = "update_copy"]
    /\ UNCHANGED <<files, versioned_store, kb, version_report>>
    /\ UNCHANGED ThreadFrame

\* line 260, and lines 277-286 when it raises
UpdateCopy(t, copy_ok, second) ==
    /\ threads[t].pc = "update_copy"
    /\ versioned_store' = IF copy_ok
                          THEN versioned_store \cup {<<DocumentIdOf(t), threads[t].new_version>>}
                          ELSE versioned_store
    /\ threads' = IF copy_ok
                  THEN [threads EXCEPT ![t].pc = "update_cleanup"]
                  ELSE [threads EXCEPT
                           ![t].pc = "finish",
                           ![t].op = <<Operation(GenerateOperationId(VmState, second),
                                                 "update_document",
                                                 threads[t].result[1].document_info,
                                                 NoVersion, NoVersion, "failed")>>]
    /\ UNCHANGED <<version_registry, files, clock, kb, version_report>>
    /\ UNCHANGED ThreadFrame

\* lines 263-273: the cleanup, and the operation that results
UpdateCleanup(t, second) ==
    /\ threads[t].pc = "update_cleanup"
    /\ \E cleaned \in {CleanupOldVersions(version_registry[DocumentIdOf(t)], files)} :
          /\ version_registry' = [version_registry EXCEPT
                                     ![DocumentIdOf(t)] = cleaned.versions]
          /\ files' = cleaned.files
          /\ threads' = [threads EXCEPT
                 ![t].pc = "finish",
                 ![t].op = <<Operation(GenerateOperationId(VmState, second),
                                       "update_document",
                                       threads[t].result[1].document_info,
                                       OldVersionOf(cleaned.versions),
                                       threads[t].new_version, "completed")>>]
    /\ UNCHANGED <<versioned_store, clock, kb, version_report>>
    /\ UNCHANGED ThreadFrame

\* lines 162-169
NoChange(t, second) ==
    /\ threads[t].pc = "no_change"
    /\ threads' = [threads EXCEPT
           ![t].pc = "finish",
           ![t].op = <<Operation(GenerateOperationId(VmState, second), "no_change",
                                 threads[t].result[1].document_info,
                                 NoVersion, NoVersion, "completed")>>]
    /\ UNCHANGED <<version_registry, files, versioned_store, clock, kb, version_report>>
    /\ UNCHANGED ThreadFrame

\* lines 112-140: the operation is counted, the knowledge base updated, the
\* report returned
ProcessFinish(t, ingest_ok) ==
    /\ threads[t].pc = "finish"
    /\ LET op == threads[t].op[1]
           r1 == [EmptyUpdateReport(1) EXCEPT !.operations = <<op>>]
       IN IF op.status = "completed"
          THEN \E k \in {UpdateKnowledgeBase(VmState, op, ingest_ok)} :
                  /\ kb' = k.vs.kb
                  /\ version_report' = [r1 EXCEPT
                         !.new_documents =
                             IF op.operation_type = "new_document" THEN 1 ELSE 0,
                         !.updated_documents =
                             IF op.operation_type = "update_document" THEN 1 ELSE 0,
                         !.knowledge_base_updates = k.kb_update,
                         !.kb_calls = k.calls]
          ELSE /\ kb' = kb
               /\ version_report' = [r1 EXCEPT !.failed_operations = 1]
    /\ update_operations' = SaveUpdateOperations(update_operations)
    /\ threads' = [threads EXCEPT ![t] = Idle]
    /\ UNCHANGED <<version_registry, files, versioned_store, clock>>
    /\ UNCHANGED <<origin, site, now, overwrite_existing, document_cache,
                   download_history, current_progress, operation_history, report,
                   download_call, watch_call, cycles, dirty, scheduler>>

\* ------------------------------------------------------ scheduler actions
Pipeline == <<origin, site, clock, overwrite_existing, document_cache, files,
              download_history, current_progress, version_registry,
              update_operations, versioned_store, kb, operation_history, report,
              version_report, download_call, watch_call, cycles, dirty, threads>>

\* the call is noted with what it returned and whether it repeats the call
\* before it
Called(s, op, arg, ok) ==
    [s EXCEPT !.last_call = [op |-> op, arg |-> arg, ok |-> ok,
                             repeated |-> (s.last_call.op = op /\ s.last_call.arg = arg)],
              !.status = <<>>]

\* start(): the scheduler starts on its job store, the default jobs are set up
Start ==
    /\ ~scheduler.running
    /\ scheduler' = Called([scheduler EXCEPT !.running = TRUE,
                                             !.jobs = SetupDefaultJobs(@)],
                           "start", None, TRUE)
    /\ UNCHANGED <<now, Pipeline>>

\* stop(): shutdown(wait=True) returns when no execution is running; the job
\* store stays in the database (before_stop notes what it held)
Stop ==
    /\ scheduler.running
    /\ scheduler.executions = <<>>
    /\ scheduler' = Called([scheduler EXCEPT !.running = FALSE,
                                             !.before_stop = <<scheduler.jobs>>],
                           "stop", None, TRUE)
    /\ UNCHANGED <<now, Pipeline>>

\* A job lifecycle call of the API on the started scheduler; r = [ok, jobs]
\* is what the method does to the job store and whether it returns True.
LifecycleCall(op, arg, r) ==
    /\ scheduler.running
    /\ scheduler' = Called([scheduler EXCEPT !.jobs = r.jobs, !.before_stop = <<>>],
                           op, arg, r.ok)
    /\ UNCHANGED <<now, Pipeline>>

ScheduleDailyUpdateCall(hour) ==
    LifecycleCall("schedule_daily_update", hour, ScheduleDailyUpdate(scheduler.jobs, hour))

ScheduleIntervalUpdateCall(hours) ==
    LifecycleCall("schedule_interval_update", hours,
                  ScheduleIntervalUpdate(scheduler.jobs, hours))

ScheduleMaintenanceTasksCall ==
    LifecycleCall("schedule_maintenance_tasks", None,
                  ScheduleMaintenanceTasks(scheduler.jobs))

PauseJobCall(job_id) ==
    LifecycleCall("pause_job", job_id, PauseJob(scheduler.jobs, job_id))

ResumeJobCall(job_id) ==
    LifecycleCall("resume_job", job_id, ResumeJob(scheduler.jobs, job_id))

RemoveJobCall(job_id) ==
    LifecycleCall("remove_job", job_id, RemoveJob(scheduler.jobs, job_id))

\* The trigger of an enabled job (the i-th of the store) fires: `due' of its run times have come
\* since the scheduler last looked at the job.
FireJob(i, due) ==
    /\ scheduler.running
    /\ i \in 1..Len(scheduler.jobs)
    /\ scheduler.jobs[i].enabled
    /\ \E sub \in {SubmitJob(scheduler.executions, scheduler.jobs[i], due)} :
          scheduler' = [scheduler EXCEPT
              !.executions = sub.executions,
              !.last_fire = [job_id |-> scheduler.jobs[i].id, due |-> due,
                             busy |-> sub.busy, runs |-> sub.runs],
              !.last_call = NoCall,
              !.status = <<>>]
    /\ UNCHANGED <<now, Pipeline>>

\* what is left of the executions once execution k has made one of its calls
AfterRun(executions, k) ==
    IF executions[k].runs_left > 1
    THEN [executions EXCEPT ![k].runs_left = @ - 1]
    ELSE SubSeq(executions, 1, k - 1) \o SubSeq(executions, k + 1, Len(executions))

\* Execution k, of the maintenance or the health-check job, calls its function.
ExecuteJob(k) ==
    /\ k \in 1..Len(scheduler.executions)
    /\ scheduler.executions[k].func \in {"_run_maintenance", "_run_health_check"}
    /\ scheduler' = [scheduler EXCEPT
           !.executions = AfterRun(@, k),
           !.job_history =
               IF scheduler.executions[k].func = "_run_maintenance"
               THEN RunMaintenance(@, now)
               ELSE RunHealthCheck(@, operation_history, now),
           !.last_call = NoCall,
           !.status = <<>>]
    /\ UNCHANGED <<now, Pipeline>>

\* Execution k, of the daily update job, calls _run_daily_update: an
\* incremental cycle, then the log entry.  page_fail: the source pages whose
\* fetch raises.
ExecuteDailyUpdate(k, page_fail) ==
    /\ k \in 1..Len(scheduler.executions)
    /\ scheduler.executions[k].func = "_run_daily_update"
    /\ RunFullUpdateCycle(0, FALSE, {}, page_fail, {"ok"},
                          {[copy_ok |-> TRUE, ingest_ok |-> TRUE, second |-> 0]})
    /\ scheduler' = [scheduler EXCEPT
           !.executions = AfterRun(@, k),
           !.job_history = LogJobExecution(@, "daily_update", "daily_update",
                                           report'.success, now'),
           !.last_call = NoCall,
           !.status = <<>>]

\* _run_maintenance and _run_health_check, as a pool thread calls them
RunMaintenanceCall ==
    /\ scheduler.running
    /\ scheduler' = [scheduler EXCEPT !.job_history = RunMaintenance(@, now),
                                      !.last_call = NoCall, !.status = <<>>]
    /\ UNCHANGED <<now, Pipeline>>

RunHealthCheckCall ==
    /\ scheduler.running
    /\ scheduler' = [scheduler EXCEPT
           !.job_history = RunHealthCheck(@, operation_history, now),
           !.last_call = NoCall, !.status = <<>>]
    /\ UNCHANGED <<now, Pipeline>>

\* dt hours pass
TimePasses(dt) ==
    /\ now' = now + dt
    /\ scheduler' = [scheduler EXCEPT !.status = <<>>]
    /\ UNCHANGED Pipeline

\* get_scheduler_status(), called by the API
GetSchedulerStatusCall ==
    /\ scheduler' = [scheduler EXCEPT !.status = <<GetSchedulerStatus(scheduler, now)>>]
    /\ UNCHANGED <<now, Pipeline>>

\* ---------------------------------------------------------- specifications
DocIds == {GenerateDocumentId(AnalyzeDocumentLink(u, [x \in Urls |-> [bytes |-> 1, lm |-> "m1", length |-> TRUE]])) :
              u \in Urls}
Labels == {FormatVersion(t) : t \in 10..(10 + MaxRegistrations)}
CriteriaChoices == {{}, {"3"}}
\* what the copy and the ingestion of one result do; the whole call falls
\* within one second of the wall clock
Faults == {io \in [copy_ok : BOOLEAN, ingest_ok : BOOLEAN, second : {0}] :
              io.copy_ok \/ io.ingest_ok}
Delays == {0, MinCheckInterval}
Docs(us) == [i \in 1..Len(us) |-> AnalyzeDocumentLink(us[i], origin)]
\* the non-empty lists of distinct published documents
Batches == {<<u>> : u \in DOMAIN origin}
           \cup {p \in (DOMAIN origin) \X (DOMAIN origin) : p[1] # p[2]}

\* The pipeline under the default configuration, one document on the site.
Next ==
    \/ \E d \in [bytes : {1, 2}, lm : Stamps, length : {TRUE}] : Publish("u1", d)
    \/ \E dt \in Delays, f \in BOOLEAN, c \in CriteriaChoices, pf \in SUBSET {"manuals"} :
           RunFullUpdateCycle(dt, f, c, pf, FetchOutcomes, Faults) /\ UNCHANGED scheduler

Spec == Init /\ [][Next]_vars

\* The downloader on its own: batches of one or two documents.
OriginChoices(u) == IF u = "u1" THEN [bytes : {1, 2}, lm : {"m1"}, length : {TRUE}]
                    ELSE [bytes : {1}, lm : {"m1"}, length : {TRUE}]

NextDL ==
    \/ \E u \in Urls : \E d \in OriginChoices(u) : Publish(u, d)
    \/ \E us \in Batches, ow \in BOOLEAN :
       Len(download_history) < MaxDownloads /\
       \E outcome \in [{us[i] : i \in 1..Len(us)} -> FetchOutcomes] :
       \E order \in Perms(Len(DocumentsToDownload(files, Docs(us), ow))) :
           DownloadDocumentsCall(origin, Docs(us), ow, outcome, order)

SpecDL == Init /\ [][NextDL]_vars

\* The pipeline on a site that serves both documents, in a deployment that
\* has run before: the history file holds HistoryCap - 1 reports of cycles
\* that found nothing, the last of them older than the throttle window.
OldHistory ==
    [i \in 1..(HistoryCap - 1) |->
        [timestamp |-> i - HistoryCap - MinCheckInterval, success |-> TRUE,
         documents_detected |-> 0]]

InitTwo ==
    /\ origin = [u \in Urls |-> [bytes |-> 1, lm |-> "m1", length |-> TRUE]]
    /\ site = DefaultSite
    /\ now = 0
    /\ clock = 0
    /\ overwrite_existing = FALSE
    /\ document_cache = EmptyDict
    /\ files = EmptyDict
    /\ download_history = <<>>
    /\ current_progress = [total_files |-> 0, completed_files |-> 0, failed_files |-> 0]
    /\ version_registry = EmptyDict
    /\ update_operations = <<>>
    /\ versioned_store = {}
    /\ kb = {}
    /\ operation_history = OldHistory
    /\ report = EmptyReport
    /\ version_report = EmptyUpdateReport(0)
    /\ download_call = [documents |-> <<>>, overwrite |-> FALSE, outcome |-> EmptyDict,
                        results |-> <<>>]
    /\ watch_call = [calls |-> 0, page_fail |-> {}, head_fail |-> {},
                     result |-> EmptyWatchResult]
    /\ cycles = 0
    /\ dirty = FALSE
    /\ threads = [t \in Threads |-> Idle]
    /\ scheduler = NewScheduler

NextTwo ==
    \E dt \in Delays, f \in BOOLEAN, c \in CriteriaChoices, pf \in SUBSET Sources :
        /\ cycles < MaxTwoCycles
        /\ RunFullUpdateCycle(dt, f, c, pf, {"ok", "error"},
                              {[copy_ok |-> TRUE, ingest_ok |-> TRUE, second |-> 0]})
        /\ UNCHANGED scheduler

SpecTwo == InitTwo /\ [][NextTwo]_vars

\* Incremental cycles triggered half a throttle window, or a whole one, apart
\* (a job every few hours, or a client polling the update endpoint).
HalfInterval == MinCheckInterval \div 2
NextThrottle ==
    \/ \E d \in [bytes : {1, 2}, lm : Stamps, length : {TRUE}] : Publish("u1", d)
    \/ \E dt \in {HalfInterval, MinCheckInterval}, f \in BOOLEAN :
           RunFullUpdateCycle(dt, f, {}, {}, {"ok"},
                              {[copy_ok |-> TRUE, ingest_ok |-> TRUE, second |-> 0]})
           /\ UNCHANGED scheduler

SpecThrottle == Init /\ [][NextThrottle]_vars

\* The watcher on its own.  The pages link u1 once, from both pages, twice on
\* one page under two texts, or without text; the HEAD response of u1 may
\* lack Last-Modified or Content-Length.
Sites ==
    {DefaultSite,
     [DefaultSite EXCEPT !["criteria_docs"] = @ \o <<Link("u1", LinkText("u1"))>>],
     [DefaultSite EXCEPT !["manuals"] = @ \o <<Link("u1", "")>>],
     [DefaultSite EXCEPT !["manuals"] = <<Link("u1", "")>>]}

HeadersW(u) == IF u = "u1" THEN [bytes : {1, 2}, lm : {"m1", None}, length : BOOLEAN]
               ELSE [bytes : {1}, lm : {"m1"}, length : {TRUE}]

NextW ==
    \/ \E u \in Urls : \E d \in HeadersW(u) : Publish(u, d)
    \/ \E st \in Sites : Relink(st)
    \/ \E pf \in SUBSET Sources, hf \in SUBSET {"u2"} :
           watch_call.calls < MaxWatches /\ WatchForUpdatesCall(pf, hf)

SpecW == Init /\ [][NextW]_vars

\* The version manager on its own: documents are fetched (overwriting), then
\* reconciled, one call at a time.  u1 has enough bodies to exceed the cap.
\* Fetch: download_documents([u], overwrite = True) succeeds while the origin
\* serves d for u.
Fetch(u, d) ==
    DownloadDocumentsCall(Put(origin, u, d),
                          <<AnalyzeDocumentLink(u, Put(origin, u, d))>>,
                          TRUE, [x \in {u} |-> "ok"], <<1>>)

BodiesVM(u) == IF u = "u1" THEN [bytes : 1..(MaxVersions + 1), lm : {"m1"}, length : {TRUE}]
               ELSE [bytes : {1}, lm : {"m1"}, length : {TRUE}]

NextVM ==
    \/ \E d \in BodiesVM("u1") :
           Len(download_history) < MaxDownloads /\ Fetch("u1", d)
    \/ \E io \in [1..1 -> Faults] : ProcessDocumentUpdatesCall(<<"u1">>, io)
    \/ \E id \in DocIds, l \in Labels : Rollback(id, l)

SpecVM == Init /\ [][NextVM]_vars

\* The version manager on batches of one or two documents, with the copy or
\* the ingestion of any of them failing.
NextKB ==
    \/ \E u \in Urls : \E d \in OriginChoices(u) :
           Len(download_history) < MaxKbDownloads /\ Fetch(u, d)
    \/ \E batch \in Batches : \E io \in [1..Len(batch) -> Faults] :
           clock < MaxKbRegistrations /\ ProcessDocumentUpdatesCall(batch, io)

SpecKB == Init /\ [][NextKB]_vars

\* The version manager on batches whose results are processed within one
\* second of the wall clock or across several.
Seconds == 0..MaxSeconds
TimedFaults == [copy_ok : BOOLEAN, ingest_ok : {TRUE}, second : Seconds]
NextOps ==
    \/ \E u \in Urls : \E d \in OriginChoices(u) :
           Len(download_history) < MaxKbDownloads /\ Fetch(u, d)
    \/ \E batch \in Batches : \E io \in [1..Len(batch) -> TimedFaults] :
           /\ clock < MaxKbRegistrations
           /\ \A i, j \in 1..Len(batch) : i < j => io[i].second <= io[j].second
           /\ ProcessDocumentUpdatesCall(batch, io)

SpecOps == Init /\ [][NextOps]_vars

\* The version manager on two documents that are both republished with
\* another body, reconciled one download at a time.
NextArchive ==
    \/ \E u \in Urls : \E d \in [bytes : {1, 2}, lm : {"m1"}, length : {TRUE}] :
           Len(download_history) < MaxDownloads /\ Fetch(u, d)
    \/ \E u \in DOMAIN origin :
           ProcessDocumentUpdatesCall(<<u>>, <<[copy_ok |-> TRUE, ingest_ok |-> TRUE,
                                               second |-> 0]>>)

SpecArchive == Init /\ [][NextArchive]_vars

\* Two threads reconcile at the same time, as two cycles started by different
\* jobs of the scheduler's pool (or by the API's background tasks) do.
NextConc ==
    \/ \E d \in BodiesVM("u1") :
           Len(download_history) < MaxConcDownloads /\ Fetch("u1", d)
    \/ \E t \in Threads : ProcessBegin(t, "u1")
    \/ \E t \in Threads : NewStore(t)
    \/ \E t \in Threads, copy_ok \in BOOLEAN : NewCopy(t, copy_ok, 0)
    \/ \E t \in Threads : UpdateMark(t)
    \/ \E t \in Threads : UpdateNumber(t)
    \/ \E t \in Threads : UpdateAppend(t)
    \/ \E t \in Threads, copy_ok \in BOOLEAN : UpdateCopy(t, copy_ok, 0)
    \/ \E t \in Threads : UpdateCleanup(t, 0)
    \/ \E t \in Threads : NoChange(t, 0)
    \/ \E t \in Threads, ingest_ok \in BOOLEAN : ProcessFinish(t, ingest_ok)

SpecConc == Init /\ [][NextConc]_vars

\* The scheduler's job store under the lifecycle calls of the API, across
\* stops and starts.
NextJobs ==
    \/ Start
    \/ Stop
    \/ \E hour \in {"02:00", "03:00"} : ScheduleDailyUpdateCall(hour)
    \/ \E hours \in {"6h", "12h"} : ScheduleIntervalUpdateCall(hours)
    \/ ScheduleMaintenanceTasksCall
    \/ \E job_id \in JobIds : PauseJobCall(job_id)
    \/ \E job_id \in JobIds : ResumeJobCall(job_id)
    \/ \E job_id \in JobIds : RemoveJobCall(job_id)

SpecJobs == Init /\ [][NextJobs]_vars

\* The started scheduler fires its default jobs and its pools run them; the
\* daily job may be rescheduled while it runs.
NextExec ==
    \/ Start
    \/ Stop
    \/ ScheduleDailyUpdateCall("03:00")
    \/ \E i \in 1..Len(scheduler.jobs), due \in 1..MaxDue : FireJob(i, due)
    \/ \E k \in 1..Len(scheduler.executions) :
           Len(scheduler.job_history) < MaxExecRuns /\ ExecuteJob(k)
    \/ \E k \in 1..Len(scheduler.executions), pf \in SUBSET {"manuals"} :
           Len(scheduler.job_history) < MaxExecRuns /\ ExecuteDailyUpdate(k, pf)

SpecExec == Init /\ [][NextExec]_vars

\* The job history under runs of the maintenance and the health-check job,
\* and the status the API reads.
NextHealth ==
    \/ Start
    \/ Stop
    \/ Len(scheduler.job_history) < MaxJobRuns /\ RunMaintenanceCall
    \/ Len(scheduler.job_history) < MaxJobRuns /\ RunHealthCheckCall
    \/ now < MaxHealthTicks * HealthWindow /\ TimePasses(HealthWindow)
    \/ GetSchedulerStatusCall

SpecHealth == Init /\ [][NextHealth]_vars

\* ------------------------------------------------------------------ claims
CurrentCount(versions) == Cardinality({i \in 1..Len(versions) : versions[i].is_current})
Quiescent == \A t \in Threads : threads[t].pc = "idle"
CycleStep == cycles' = cycles + 1
OpsFor(rep, id) ==
    {i \in 1..Len(rep.operations) :
        GenerateDocumentId(rep.operations[i].document_info) = id}
LabelsOf(versions) == {ParseVersion(versions[i].version) : i \in 1..Len(versions)}
StampsOf(versions) == {versions[i].timestamp : i \in 1..Len(versions)}

\* C1 (SpecConc): whenever no process_document_updates call is in progress,
\* every document of the registry has exactly one version flagged current.
\* Two threads that both find no version of a document both append a current
\* "1.0".
C1_SingleCurrent ==
    Quiescent => \A id \in DOMAIN version_registry :
                     CurrentCount(version_registry[id]) = 1

\* C2 (Spec): a cycle that runs the detector on every page, unfiltered, while
\* a known document is republished with other bytes and another size or
\* Last-Modified, and in which nothing fails, registers a new current version
\* with those bytes and reports a completed update_document operation.
C2_UpdatePropagation ==
    [][\A u \in DOMAIN origin \cap DOMAIN document_cache :
         LET doc == AnalyzeDocumentLink(u, origin)
             id == GenerateDocumentId(doc)
             cur == GetCurrentVersion(version_registry, id)
         IN (/\ CycleStep
             /\ report'.watched /\ report'.watch_result.success
             /\ report'.specific_criteria = {}
             /\ cur # <<>> /\ cur[1].checksum.bytes # origin[u].bytes
             /\ (document_cache[u].size # doc.size
                   \/ document_cache[u].last_modified # doc.last_modified)
             /\ report'.failed_downloads = 0 /\ report'.ingestion_failures = 0)
            => /\ GetCurrentVersion(version_registry', id)[1].checksum.bytes = origin[u].bytes
               /\ report'.reconciled
               /\ \E i \in OpsFor(version_report', id) :
                      /\ version_report'.operations[i].operation_type = "update_document"
                      /\ version_report'.operations[i].status = "completed"]_vars

\* What a cycle did to the versions: nothing registered, no new_document and
\* no update_document operation.
NothingRegistered ==
    /\ version_registry' = version_registry
    /\ report'.new_versions_created = 0 /\ report'.documents_updated = 0
    /\ report'.reconciled =>
           \A i \in 1..Len(version_report'.operations) :
               version_report'.operations[i].operation_type = "no_change"

FirstSighting(i) ==
    /\ CycleStep /\ report'.reconciled
    /\ report'.download_results[i].success
    /\ GenerateDocumentId(report'.download_results[i].document_info)
           \notin DOMAIN version_registry

RegisteredFirst(id) ==
    /\ id \in DOMAIN version_registry'
    /\ Len(version_registry'[id]) = 1
    /\ version_registry'[id][1].version = [major |-> 1, minor |-> 0]
    /\ version_registry'[id][1].is_current

CompletedNew(id) ==
    /\ Cardinality(OpsFor(version_report', id)) = 1
    /\ \A i \in OpsFor(version_report', id) :
           /\ version_report'.operations[i].operation_type = "new_document"
           /\ version_report'.operations[i].status = "completed"
    /\ report'.new_versions_created = 1 /\ report'.documents_updated = 0

\* C4 as stated (Spec): a successful download of a document without versions
\* yields one current version "1.0", one completed new_document operation and
\* the counts new = 1, updated = 0.  Refuted when the copy into the versioned
\* store raises.
C4_FirstSighting ==
    [][\A i \in 1..Len(report'.download_results) :
         FirstSighting(i) =>
             LET id == GenerateDocumentId(report'.download_results[i].document_info)
             IN RegisteredFirst(id) /\ CompletedNew(id)]_vars

\* C4 amended (Spec): ... when the copy into the versioned store succeeds;
\* when it raises, the one operation is a failed new_document and the counts
\* are new = 0, updated = 0, failed = 1.
C4_FirstSightingCopied ==
    [][\A i \in 1..Len(report'.download_results) :
         FirstSighting(i) =>
             LET id == GenerateDocumentId(report'.download_results[i].document_info)
             IN IF <<id, [major |-> 1, minor |-> 0]>> \in versioned_store'
                THEN RegisteredFirst(id) /\ CompletedNew(id)
                ELSE /\ Cardinality(OpsFor(version_report', id)) = 1
                     /\ \A j \in OpsFor(version_report', id) :
                            /\ version_report'.operations[j].operation_type = "new_document"
                            /\ version_report'.operations[j].status = "failed"
                     /\ report'.new_versions_created = 0
                     /\ report'.documents_updated = 0
                     /\ report'.ingestion_failures = 1]_vars

\* C4 witness: the first cycle registered "1.0", copied it and counted it.
C4_Witness ==
    /\ cycles = 1 /\ report.reconciled
    /\ report.new_versions_created = 1 /\ report.documents_updated = 0
    /\ \E id \in DOMAIN version_registry :
           /\ Len(version_registry[id]) = 1
           /\ version_registry[id][1].version = [major |-> 1, minor |-> 0]
           /\ version_registry[id][1].is_current
           /\ <<id, [major |-> 1, minor |-> 0]>> \in versioned_store

\* C5 (SpecVM): a version registered by an update is labelled max(existing
\* labels) + 0.1, above every label the document ever had a copy of; the
\* labels of a document increase strictly in registration order - also after
\* pruning and rollbacks.
C5_VersionMonotonicity ==
    [][\A id \in DOMAIN version_registry' :
         LET after == version_registry'[id]
             before == GetDocumentVersions(version_registry, id)
         IN /\ \A i, j \in 1..Len(after) :
                   i < j => /\ after[i].timestamp < after[j].timestamp
                            /\ ParseVersion(after[i].version) < ParseVersion(after[j].version)
            /\ \A i \in 1..Len(after) :
                   (before # <<>> /\ after[i].timestamp \notin StampsOf(before))
                   => /\ ParseVersion(after[i].version) = MaxOf(LabelsOf(before)) + 1
                      /\ \A c \in versioned_store :
                             c[1] = id => ParseVersion(c[2]) < ParseVersion(after[i].version)
       ]_vars

\* C5 witness: a document pruned to the cap whose newest label is "1.3" and
\* whose current version, after a rollback, is an older one.
C5_Witness ==
    \E id \in DOMAIN version_registry :
        LET versions == version_registry[id]
        IN /\ Len(versions) = MaxVersions
           /\ Last(versions).version = [major |-> 1, minor |-> 3]
           /\ ~Last(versions).is_current
           /\ CurrentCount(versions) = 1

\* C6 (SpecVM): a completed update_document operation carries the label that
\* was current before the update as old_version, the new label as new_version,
\* and the two differ.  The code reads old_version from the list it has just
\* appended to.
C6_FromToVersion ==
    [][\A i \in 1..Len(version_report'.operations) :
         LET op == version_report'.operations[i]
             id == GenerateDocumentId(op.document_info)
         IN (/\ clock' # clock
             /\ op.operation_type = "update_document" /\ op.status = "completed")
            => /\ op.old_version = GetCurrentVersion(version_registry, id)[1].version
               /\ op.new_version = GetCurrentVersion(version_registry', id)[1].version
               /\ op.old_version # op.new_version]_vars

\* C7 (SpecVM): a no_change operation registers no version and comes with no
\* call to the ingestion or the knowledge base for its document.
C7_NoChangeNoKb ==
    [][\A i \in 1..Len(version_report'.operations) :
         LET op == version_report'.operations[i]
             id == GenerateDocumentId(op.document_info)
         IN op.operation_type = "no_change"
            => /\ Len(GetDocumentVersions(version_registry', id))
                    = Len(GetDocumentVersions(version_registry, id))
               /\ \A j \in 1..Len(version_report'.kb_calls) :
                      version_report'.kb_calls[j].document_id # id]_vars

\* C8 (SpecVM): no document holds more than MaxVersions versions after a
\* reconcile; a registration on a document at the cap leaves MaxVersions
\* versions, the current one among them, the oldest one gone.
C8_Retention ==
    [][\A id \in DOMAIN version_registry' :
         LET after == version_registry'[id]
             before == GetDocumentVersions(version_registry, id)
         IN /\ Len(after) <= MaxVersions
            /\ (Len(before) = MaxVersions /\ StampsOf(after) # StampsOf(before))
               => /\ Len(after) = MaxVersions
                  /\ CurrentCount(after) = 1
                  /\ SortByTimestamp(before)[1].timestamp \notin StampsOf(after)]_vars

\* C9 (SpecVM): when versions of a document are pruned, only files recorded
\* for pruned versions are deleted and the file recorded for the current
\* version still exists.  Every version records the same download path.
C9_PruneKeepsCurrentFile ==
    [][\A id \in DOMAIN version_registry :
         LET before == version_registry[id]
             after == version_registry'[id]
             pruned == {i \in 1..Len(before) : before[i].timestamp \notin StampsOf(after)}
         IN pruned # {}
            => /\ DOMAIN files \ DOMAIN files' \subseteq {before[i].file_path : i \in pruned}
               /\ GetCurrentVersion(version_registry', id)[1].file_path \in DOMAIN files'
       ]_vars

\* C10 (SpecDL): download_documents(documents, overwrite = False) returns,
\* for each document whose path exists, an unfetched successful result with
\* that path.  The code drops those documents before the pool runs.
C10_SkipExisting ==
    [][(download_call' # download_call /\ ~download_call'.overwrite)
       => \A i \in 1..Len(download_call'.documents) :
              LET doc == download_call'.documents[i]
              IN GetDocumentPath(doc) \in DOMAIN files
                 => \E j \in 1..Len(download_call'.results) :
                        /\ download_call'.results[j].document_info = doc
                        /\ download_call'.results[j].success
                        /\ download_call'.results[j].file_path = GetDocumentPath(doc)
                        /\ ~download_call'.results[j].fetched]_vars

\* C11 (SpecDL): download_documents on a batch of N documents none of which
\* has a file returns N results, one for each document; the result of a
\* document whose fetch raised is failed and carries the error message, the
\* result of every other document is successful with that document's path -
\* in whatever order the tasks complete.
C11_DownloadIsolation ==
    [][LET docs == download_call'.documents
           results == download_call'.results
       IN (/\ origin' = origin
           /\ \A i \in 1..Len(docs) : GetDocumentPath(docs[i]) \notin DOMAIN files)
          => /\ Len(results) = Len(docs)
             /\ \A i \in 1..Len(docs) :
                    \E j \in 1..Len(results) :
                        /\ results[j].document_info = docs[i]
                        /\ \A k \in 1..Len(results) :
                               results[k].document_info = docs[i] => k = j
                        /\ IF download_call'.outcome[docs[i].url] = "ok"
                           THEN /\ results[j].success
                                /\ results[j].file_path = GetDocumentPath(docs[i])
                                /\ results[j].error_message = None
                                /\ GetDocumentPath(docs[i]) \in DOMAIN files'
                           ELSE /\ ~results[j].success
                                /\ results[j].error_message # None]_vars

\* C11 witness: a batch of two documents, neither on disk before; the task that
\* completed first failed, the other one succeeded, and the results come in
\* another order than the documents.
C11_Witness ==
    /\ Len(download_call.documents) = 2 /\ Len(download_call.results) = 2
    /\ ~download_call.overwrite
    /\ ~download_call.results[1].success /\ download_call.results[1].error_message # None
    /\ download_call.results[2].success
    /\ download_call.results[1].document_info = download_call.documents[2]
    /\ Len(download_history) = 2

\* What the last watch offered: the new documents, then the updated ones.
Offered(call) == call.result.new_documents \o call.result.updated_documents
WatchStep == watch_call'.calls # watch_call.calls
InList(d, list) == \E i \in 1..Len(list) : list[i] = d
\* The links the watch of this step examined: those of the pages that could be
\* fetched, whose HEAD request returned.
Candidates ==
    {l \in UNION {{site[s][k] : k \in 1..Len(site[s])} : s \in Sources \ watch_call'.page_fail} :
        l.url \in DOMAIN origin /\ l.url \notin watch_call'.head_fail}

\* C12 (SpecW): no URL occurs twice in the combined new + updated list of a
\* watch.  The lists of the pages are concatenated as they are: a URL linked
\* from two pages, or twice on a page, is listed once per link.
C12_OneOfferPerUrl ==
    \A i, j \in 1..Len(Offered(watch_call)) :
        Offered(watch_call)[i].url = Offered(watch_call)[j].url => i = j

\* C13 (SpecW): a watch reports one error per source page that could not be
\* fetched and succeeds exactly when there is none; every link of a page that
\* could be fetched is still classified: listed as new when its URL is not
\* cached, as updated when the cached entry differs.
C13_SourceIsolation ==
    [][WatchStep =>
         LET r == watch_call'.result
         IN /\ Cardinality(r.errors) = Cardinality(watch_call'.page_fail)
            /\ r.success <=> (r.errors = {})
            /\ r.total_documents_found = Len(r.new_documents) + Len(r.updated_documents)
            /\ \A l \in Candidates :
                   LET doc == AnalyzeLink(l.url, l.text, origin)
                   IN /\ l.url \notin DOMAIN document_cache => InList(doc, r.new_documents)
                      /\ (/\ l.url \in DOMAIN document_cache
                          /\ IsDocumentUpdated(document_cache[l.url], doc))
                         => InList(doc, r.updated_documents)]_vars

\* C13 witness: the first source page failed, the document of the second page
\* was still found, and the watch reports the failure.
C13_Witness ==
    /\ watch_call.page_fail = {"manuals"}
    /\ watch_call.result.errors # {} /\ ~watch_call.result.success
    /\ \E i \in 1..Len(watch_call.result.new_documents) :
           watch_call.result.new_documents[i].url = "u2"
    /\ "u1" \in DOMAIN origin /\ "u1" \notin DOMAIN document_cache

\* C14 as stated (SpecW): a candidate whose URL is not cached is listed as new;
\* one whose URL is cached is listed as updated exactly when its Last-Modified,
\* its size or its title differs from the cached one, an absent hint differing
\* from a present one; else it is listed nowhere.  Refuted when a hint is
\* absent on one side only.
C14_Classification ==
    [][WatchStep =>
         \A l \in Candidates :
             LET doc == AnalyzeLink(l.url, l.text, origin)
                 r == watch_call'.result
             IN IF l.url \notin DOMAIN document_cache
                THEN InList(doc, r.new_documents) /\ ~InList(doc, r.updated_documents)
                ELSE /\ ~InList(doc, r.new_documents)
                     /\ InList(doc, r.updated_documents)
                        <=> \/ doc.last_modified # document_cache[l.url].last_modified
                            \/ doc.size # document_cache[l.url].size
                            \/ doc.title # document_cache[l.url].title]_vars

\* C14 amended (SpecW): ... listed as updated exactly when both Last-Modified
\* hints are present and differ, or both size hints are present and differ, or
\* the titles differ.
C14_ClassificationBothPresent ==
    [][WatchStep =>
         \A l \in Candidates :
             LET doc == AnalyzeLink(l.url, l.text, origin)
                 r == watch_call'.result
             IN IF l.url \notin DOMAIN document_cache
                THEN InList(doc, r.new_documents) /\ ~InList(doc, r.updated_documents)
                ELSE LET cached == document_cache[l.url]
                     IN /\ ~InList(doc, r.new_documents)
                        /\ InList(doc, r.updated_documents)
                           <=> \/ /\ doc.last_modified # None
                                  /\ cached.last_modified # None
                                  /\ doc.last_modified # cached.last_modified
                               \/ /\ doc.size # None /\ cached.size # None
                                  /\ doc.size # cached.size
                               \/ doc.title # cached.title]_vars

\* C14 witness: the last watch examined u1, cached with a Last-Modified hint
\* and now served without one, and dropped it as unchanged.
C14_Witness ==
    /\ watch_call.calls >= 2
    /\ watch_call.page_fail = {} /\ Offered(watch_call) = <<>>
    /\ "u1" \in DOMAIN origin /\ "u1" \in DOMAIN document_cache
    /\ origin["u1"].lm = None /\ document_cache["u1"].last_modified # None
    /\ site = DefaultSite

\* The documents a cycle's detector offered.
OfferedIn(rep) == rep.watch_result.new_documents \o rep.watch_result.updated_documents
OfferedUrls(rep) ==
    {rep.watch_result.new_documents[i].url : i \in 1..Len(rep.watch_result.new_documents)}
    \cup {rep.watch_result.updated_documents[i].url :
              i \in 1..Len(rep.watch_result.updated_documents)}
NeverDownloaded(u) ==
    \A i \in 1..Len(download_history) :
        download_history[i].url = u => ~download_history[i].success

\* C15 (SpecTwo): a cycle whose detector runs and reads every source offers
\* again every document that an earlier watch offered (it is cached, with the
\* metadata the origin still serves) and that no download has fetched
\* successfully.  The detector caches a document when it offers it, whatever
\* becomes of the download.
C15_ReofferUndownloaded ==
    [][(CycleStep /\ report'.watched /\ report'.watch_result.success)
       => \A u \in DOMAIN document_cache \cap DOMAIN origin :
              (/\ document_cache[u] = AnalyzeDocumentLink(u, origin)
               /\ NeverDownloaded(u)
               /\ GetDocumentPath(document_cache[u]) \notin DOMAIN files)
              => u \in OfferedUrls(report')]_vars

\* C16 (SpecTwo): a cycle whose watch phase reports success = false calls
\* neither the downloader nor the version manager - no file, download record,
\* version or knowledge-base entry changes - and returns a report with
\* success = false and the detector's errors.
C16_WatchFailureAborts ==
    [][(CycleStep /\ ~report'.watch_result.success)
       => /\ report'.phases = <<"watching">>
          /\ UNCHANGED <<download_call, download_history, current_progress, files,
                         version_report, version_registry, versioned_store, kb, clock>>
          /\ ~report'.success
          /\ report'.error_messages = report'.watch_result.errors
          /\ report'.error_messages # {}]_vars

\* C16 witness: a second cycle failed on the second source page after the
\* detector had found a new document on the first one; nothing was downloaded.
C16_Witness ==
    /\ cycles = 2 /\ ~report.success
    /\ report.watch_result.errors = {"criteria_docs"}
    /\ Len(report.watch_result.new_documents) = 1
    /\ report.phases = <<"watching">>
    /\ download_call.documents = <<>>

\* C17 (SpecTwo): every cycle, whatever its path, appends the one entry of
\* its report to the history; the history keeps the entries in order and
\* drops the oldest ones beyond HistoryCap.
C17_OneReportPerCycle ==
    [][CycleStep =>
         LET h == operation_history
             all == h \o <<HistoryEntry(report')>>
         IN /\ Len(operation_history') <= HistoryCap
            /\ Last(operation_history') = HistoryEntry(report')
            /\ operation_history' =
                   IF Len(h) < HistoryCap THEN all ELSE SubSeq(all, 2, Len(all))]_vars

\* C17 witness: the history is full, its oldest entries were dropped, and its
\* last three entries are those of a cycle that downloaded, a failed watch and
\* an empty cycle.
C17_Witness ==
    /\ cycles = 3 /\ Len(operation_history) = HistoryCap
    /\ operation_history[1] = OldHistory[3]
    /\ operation_history[HistoryCap - 2].success
    /\ operation_history[HistoryCap - 2].documents_detected = 2
    /\ ~operation_history[HistoryCap - 1].success
    /\ report.success /\ report.phases = <<"watching">>
    /\ operation_history[HistoryCap] = HistoryEntry(report)

\* C18 (SpecTwo): a cycle runs the detector exactly when force_recheck is set
\* or the history holds no successful cycle begun within MinCheckInterval of
\* its own start; a throttled cycle leaves the cache alone and detects nothing.
C18_Throttle ==
    [][CycleStep =>
         /\ report'.watched <=>
               \/ report'.force_recheck
               \/ ~\E i \in 1..Len(operation_history) :
                      /\ operation_history[i].success
                      /\ operation_history[i].timestamp
                             > report'.timestamp - MinCheckInterval
         /\ ~report'.watched =>
               /\ document_cache' = document_cache
               /\ report'.documents_detected = 0
               /\ OfferedIn(report') = <<>>
               /\ report'.watch_result.errors = {}]_vars

\* C18 witness: three cycles: one that watched, an unforced one throttled by
\* it, and an unforced one that watched again once the window had passed.
C18_Witness ==
    /\ cycles = 3
    /\ ~report.force_recheck /\ report.watched
    /\ operation_history[HistoryCap - 2].success
    /\ operation_history[HistoryCap - 1].success
    /\ operation_history[HistoryCap - 1].timestamp = operation_history[HistoryCap - 2].timestamp
    /\ report.timestamp = operation_history[HistoryCap - 1].timestamp + MinCheckInterval

AllPhases == <<"watching", "downloading", "reconciling", "cleaning_up">>

\* C19 as stated (SpecTwo): a cycle whose watch phase did not fail went
\* through downloading, reconciling and cleaning up, in that order.  Refuted
\* by a cycle that has no document to process.
C19_AllPhases ==
    (cycles >= 1 /\ report.watch_result.success) => report.phases = AllPhases

\* C19 amended (SpecTwo): a cycle whose watch phase did not fail and that has
\* documents to process went through downloading, then reconciling when a
\* download succeeded, then cleaning up; one without documents to process
\* returned right after watching.
C19_PhasesWhenDocuments ==
    (cycles >= 1 /\ report.watch_result.success)
    => IF report.documents_to_process = <<>>
       THEN report.phases = <<"watching">>
       ELSE IF \E i \in 1..Len(report.download_results) : report.download_results[i].success
       THEN report.phases = AllPhases
       ELSE report.phases = <<"watching", "downloading", "cleaning_up">>

\* C19 witness: a cycle detected two documents and downloaded neither: it
\* skipped the reconcile and cleaned up.
C19_Witness ==
    /\ cycles >= 1 /\ report.watch_result.success
    /\ Len(report.documents_to_process) = 2
    /\ Len(report.download_results) = 2
    /\ \A i \in 1..2 : ~report.download_results[i].success
    /\ report.phases = <<"watching", "downloading", "cleaning_up">>

\* C20 (SpecTwo): in a cycle that downloaded, the downloader was given
\* documents the detector returned in that cycle, and the version manager was
\* given exactly the successful results of that download, after it.
C20_PhaseOrdering ==
    (cycles >= 1 /\ Len(report.phases) > 1)
    => /\ SubSeq(report.phases, 1, 2) = <<"watching", "downloading">>
       /\ download_call.documents = report.documents_to_process
       /\ download_call.results = report.download_results
       /\ \A i \in 1..Len(download_call.documents) :
              InList(download_call.documents[i], OfferedIn(report))
       /\ \A i \in 1..Len(report.version_input) :
              /\ report.version_input[i].success
              /\ InList(report.version_input[i], report.download_results)
       /\ \A i \in 1..Len(report.download_results) :
              report.download_results[i].success
              => InList(report.download_results[i], report.version_input)
       /\ Len(report.version_input) = report.successful_downloads
       /\ report.reconciled <=> (report.version_input # <<>>)
       /\ report.reconciled =>
              /\ report.phases[3] = "reconciling"
              /\ version_report.total_documents = Len(report.version_input)

\* C20 witness: a cycle downloaded two documents, one fetch failed, and the
\* version manager was given the other result only.
C20_Witness ==
    /\ Len(report.download_results) = 2
    /\ report.failed_downloads = 1
    /\ Len(report.version_input) = 1
    /\ report.reconciled /\ version_report.total_documents = 1
    /\ report.phases = AllPhases

\* The operations of a reconcile report whose ingestion was called and did not
\* succeed: an ingest call for the document, no knowledge-base update for it.
IngestFailed(rep) ==
    {i \in 1..Len(rep.operations) :
        LET id == GenerateDocumentId(rep.operations[i].document_info)
        IN /\ \E j \in 1..Len(rep.kb_calls) :
                  rep.kb_calls[j].call = "ingest" /\ rep.kb_calls[j].document_id = id
           /\ \A j \in 1..Len(rep.knowledge_base_updates) :
                  rep.knowledge_base_updates[j].document_id # id}

\* C21 (SpecKB): in the report of a reconcile, every document of the batch has
\* its operation (a failure does not stop the loop), an operation whose
\* ingestion failed has status failed, and failed_operations counts it.  The
\* code leaves such an operation completed and does not count it.
C21_IngestFailureRecorded ==
    /\ Len(version_report.operations) = version_report.total_documents
    /\ \A i \in IngestFailed(version_report) :
           version_report.operations[i].status = "failed"
    /\ version_report.failed_operations >= Cardinality(IngestFailed(version_report))

\* C22 (SpecVM): a version flagged current in the registry has been ingested:
\* the knowledge base holds entries of that document and version.  The code
\* flags the version when it registers it, before the ingestion is tried, and
\* leaves the flag when the ingestion fails.
C22_CurrentInKb ==
    \A id \in DOMAIN version_registry :
        \A i \in 1..Len(version_registry[id]) :
            version_registry[id][i].is_current
            => \E e \in kb : /\ e.document_id = id
                             /\ e.version = version_registry[id][i].version

\* C23 (SpecVM): after a reconcile that completes an update_document
\* operation, the entries of the document's previously current version are
\* archived and every entry of the document that is not archived carries the
\* new version.  The archive call is made with the operation's old_version,
\* which the code reads from the list it has just appended to (C6): it names
\* the new version.
C23_ArchiveOnUpdate ==
    [][\A i \in 1..Len(version_report'.operations) :
         LET op == version_report'.operations[i]
             id == GenerateDocumentId(op.document_info)
         IN (/\ clock' # clock
             /\ op.operation_type = "update_document" /\ op.status = "completed")
            => \A e \in kb' :
                   e.document_id = id
                   => /\ e.version = GetCurrentVersion(version_registry, id)[1].version
                         => e.status = "archived"
                      /\ e.status # "archived" => e.version = op.new_version]_vars

\* C24 (SpecVM): every operation of a reconcile report is in the
\* update-operation log, and a reconcile changes the log only by appending
\* (and by dropping the oldest entries above the cap).  Nothing appends to
\* the log.
C24_AuditLog ==
    /\ \A i \in 1..Len(version_report.operations) :
           \E j \in 1..Len(update_operations) :
               update_operations[j] = version_report.operations[i]
    /\ Len(update_operations) <= UpdateOperationsCap

\* C25 (SpecW): the document ids of two DocumentInfos of one URL are equal:
\* that of a document a watch lists and that of the cached entry of its URL,
\* and those of two entries of one list.  The id carries the criterion, which
\* is detected from the title (the link text) among others.
C25_StableIdentity ==
    [][WatchStep =>
         \A i \in 1..Len(Offered(watch_call')) :
             LET d == Offered(watch_call')[i]
             IN /\ d.url \in DOMAIN document_cache
                      => GenerateDocumentId(d) = GenerateDocumentId(document_cache[d.url])
                /\ \A j \in 1..Len(Offered(watch_call')) :
                       Offered(watch_call')[j].url = d.url
                       => GenerateDocumentId(Offered(watch_call')[j]) = GenerateDocumentId(d)
      ]_vars

\* A step in which a job fired.
FireStep ==
    \/ scheduler'.last_fire # scheduler.last_fire
    \/ Len(scheduler'.executions) > Len(scheduler.executions)

C27_SingleWriter ==
    \A t1, t2 \in Threads :
        (threads[t1].pc # "idle" /\ threads[t2].pc # "idle") => t1 = t2

LifecycleOps == {"schedule_daily_update", "schedule_interval_update",
                 "schedule_maintenance_tasks", "pause_job", "resume_job", "remove_job"}
\* the store holds one job of this id, with this trigger, enabled
OneJob(jobs, job_id, trigger) ==
    /\ Cardinality(GetJob(jobs, job_id)) = 1
    /\ \A i \in GetJob(jobs, job_id) : jobs[i].trigger = trigger /\ jobs[i].enabled

\* C28 (SpecJobs): a lifecycle call that repeats the call before it leaves
\* the job store as that call left it, and what a call does is in the store
\* when it returns: a paused job has no next run time, a resumed one has, a
\* removed one is gone, a scheduled id names exactly one job, enabled, with
\* the trigger of the call.
C28_LifecycleIdempotent ==
    [][LET c == scheduler'.last_call
           jobs == scheduler'.jobs
       IN c.op \in LifecycleOps =>
            /\ c.repeated => jobs = scheduler.jobs
            /\ c.op = "pause_job" =>
                   \A i \in GetJob(jobs, c.arg) : ~jobs[i].enabled
            /\ c.op = "resume_job" =>
                   \A i \in GetJob(jobs, c.arg) : jobs[i].enabled
            /\ c.op \in {"pause_job", "resume_job"} =>
                   /\ c.ok = (GetJob(scheduler.jobs, c.arg) # {})
                   /\ Cardinality(GetJob(jobs, c.arg)) = Cardinality(GetJob(scheduler.jobs, c.arg))
            /\ c.op = "remove_job" => GetJob(jobs, c.arg) = {}
            /\ c.op = "schedule_daily_update" =>
                   c.ok /\ OneJob(jobs, "daily_naac_update", <<"cron", c.arg>>)
            /\ c.op = "schedule_interval_update" =>
                   c.ok /\ OneJob(jobs, "interval_naac_update", <<"interval", c.arg>>)
            /\ c.op = "schedule_maintenance_tasks" =>
                   /\ c.ok
                   /\ OneJob(jobs, "weekly_maintenance", <<"cron", "sun">>)
                   /\ OneJob(jobs, "daily_health_check", <<"cron", "daily">>)
      ]_vars

\* C28 witness: schedule_maintenance_tasks was called twice in a row on a
\* store in which the health check had been paused.
C28_Witness ==
    /\ scheduler.last_call.op = "schedule_maintenance_tasks"
    /\ scheduler.last_call.repeated
    /\ OneJob(scheduler.jobs, "weekly_maintenance", <<"cron", "sun">>)
    /\ OneJob(scheduler.jobs, "daily_health_check", <<"cron", "daily">>)
    /\ Len(scheduler.jobs) = 4

\* the ids of the jobs of a store, each with whether it is enabled
JobStates(jobs) == {[id |-> jobs[i].id, enabled |-> jobs[i].enabled] : i \in 1..Len(jobs)}

\* C29 (SpecJobs): after stop() and start() the store holds the jobs it held
\* at the stop, each enabled or paused as it was.  start() sets up the
\* default jobs again: a removed daily update comes back, and when one of the
\* two maintenance jobs is missing both are added anew, enabled.
C29_JobsSurviveRestart ==
    (scheduler.last_call.op = "start" /\ scheduler.before_stop # <<>>)
    => JobStates(scheduler.jobs) = JobStates(scheduler.before_stop[1])

\* the job_history entries the health check counts as recent
RecentJobs == SelectSeq(scheduler.job_history, LAMBDA e : e.timestamp > now - HealthWindow)
RecentSuccesses == SelectSeq(RecentJobs, LAMBDA e : e.success)
\* the classes of C30 by the success ratio s / n (n > 0), in tenths
RatioClass(s, n) ==
    IF 10 * s >= 9 * n THEN "healthy"
    ELSE IF 10 * s >= 7 * n THEN "warning"
    ELSE "critical"

\* C30 as stated (SpecHealth): the system_health of a status is healthy,
\* warning or critical by the success ratio of the recent executions, and
\* unknown when there is none.  Refuted without recent executions (the
\* status says warning) and on a stopped scheduler (critical).
C30_Health ==
    scheduler.status # <<>>
    => scheduler.status[1].system_health =
           IF RecentJobs = <<>> THEN "unknown"
           ELSE RatioClass(Len(RecentSuccesses), Len(RecentJobs))

\* C30 amended (SpecHealth): a stopped scheduler is critical; a running one
\* is warning when no execution was logged in the last 48 hours, and else
\* healthy, warning or critical by the success ratio of those executions.
C30_HealthRunning ==
    scheduler.status # <<>>
    => scheduler.status[1].system_health =
           IF ~scheduler.running THEN "critical"
           ELSE IF RecentJobs = <<>> THEN "warning"
           ELSE RatioClass(Len(RecentSuccesses), Len(RecentJobs))

\* C30 witness: a status read with ten recent executions of which nine
\* succeeded: healthy at exactly 90%.
C30_Witness ==
    /\ scheduler.status # <<>>
    /\ scheduler.status[1].system_health = "healthy"
    /\ Len(RecentJobs) = 10 /\ Len(RecentSuccesses) = 9

\* ---------------------------------------------------------------- C31
\* C31: any two operations generated by one version manager have different
\* operation_id values, also when they are generated within the same second
\* or within the same batch.  Stated on the operations of one report.
C31_UniqueOperationIds ==
    LET ops == version_report.operations
    IN \A i, j \in 1..Len(ops) : i # j => ops[i].operation_id # ops[j].operation_id

\* ---------------------------------------------------------------- C32
\* C32: rollback_to_version(D, v) returns True when a version labelled v
\* exists for D, and afterwards exactly that version is current and no version
\* was added or removed; when no version labelled v exists for D (it never
\* existed or was pruned) it returns False and the registry, every is_current
\* flag included, is unchanged.  Stated of the call on every reachable registry.
C32_Rollback ==
    \A id \in DocIds, l \in Labels :
        LET before == GetDocumentVersions(version_registry, id)
            r == RollbackToVersion(version_registry, id, l)
            after == GetDocumentVersions(r.registry, id)
            exists == \E i \in 1..Len(before) : before[i].version = l
        IN /\ r.ok = exists
           /\ exists =>
                 /\ Len(after) = Len(before)
                 /\ \A i \in 1..Len(before) :
                        /\ after[i] = [before[i] EXCEPT !.is_current = after[i].is_current]
                        /\ after[i].is_current = (before[i].version = l)
                 /\ Cardinality({i \in 1..Len(after) : after[i].is_current}) = 1
                 /\ \A other \in DOMAIN version_registry \ {id} :
                        r.registry[other] = version_registry[other]
           /\ ~exists => r.registry = version_registry

\* C32 witness: a document has been rolled back to a version that is not
\* its latest (only a rollback leaves an older version current), and a label
\* it once carried has been pruned.
C32_Witness ==
    \E id \in DOMAIN version_registry :
        LET versions == version_registry[id]
        IN /\ Len(versions) >= 2
           /\ \E i \in 1..Len(versions) :
                 /\ versions[i].is_current
                 /\ \A j \in 1..Len(versions) : versions[j].is_current => j = i
                 /\ \E j \in 1..Len(versions) :
                        ParseVersion(versions[j].version) > ParseVersion(versions[i].version)
           /\ \A i \in 1..Len(versions) : versions[i].version # FirstVersion

\* ---------------------------------------------------------------- C33
\* C33: when registering a new or updated version fails part-way (the copy
\* into the versioned store raises), the operation is returned with status
\* failed and the version registry - the version list of the document and
\* every is_current flag - is as it was before the attempt.  Stated of the
\* reconcile of u1's download on every reachable state.
C33_FailedRegistrationNoChange ==
    Downloaded("u1") =>
        \A io \in [1..1 -> Faults] :
            LET v == ProcessDocumentUpdates(VmState, <<ResultOf("u1")>>, io)
                op == v.report.operations[1]
            IN /\ ~io[1].copy_ok /\ op.operation_type # "no_change"
                     => op.status = "failed"
               /\ op.status = "failed" => v.vs.registry = version_registry

\* ---------------------------------------------------------------- C34
\* C34: when incremental cycles are triggered at intervals shorter than the
\* minimum check interval, the detector is invoked again once the minimum
\* interval has elapsed since its last invocation: a cycle is throttled only
\* while the detector's last invocation is less than MinCheckInterval old,
\* and a throttled cycle does not extend the window.
C34_ThrottleFromLastWatch ==
    (cycles >= 1 /\ ~report.watched)
    => /\ report.last_watch # <<>>
       /\ report.timestamp - report.last_watch[1] < MinCheckInterval

\* ---------------------------------------------------------------- C35
\* C35: a document detected as new or changed in a criterion-scoped cycle but
\* excluded from that cycle by the criteria filter is offered as new or
\* changed by a later cycle whose filter admits it (or that has no filter).
\* Stated of the next cycle, when its detector runs and reads every source.
C35_FilterLosesNothing ==
    [][(CycleStep /\ report'.watched /\ report'.watch_result.success
                  /\ report'.watch_result.errors = {})
       => \A i \in 1..Len(OfferedIn(report)) :
              LET d == OfferedIn(report)[i]
              IN (/\ report.specific_criteria # {}
                  /\ d.criterion \notin report.specific_criteria
                  /\ \/ report'.specific_criteria = {}
                     \/ d.criterion \in report'.specific_criteria)
                 => /\ d.url \in OfferedUrls(report')
                    /\ \E j \in 1..Len(report'.documents_to_process) :
                           report'.documents_to_process[j].url = d.url]_vars

\* ---------------------------------------------------------------- C36
\* C36: in every cycle report successful_downloads + failed_downloads =
\* download_attempts, and the downloader's progress ends the batch with
\* completed_files + failed_files = total_files.
C36_ReportCounts ==
    /\ report.successful_downloads + report.failed_downloads = report.download_attempts
    /\ current_progress.completed_files + current_progress.failed_files
           = current_progress.total_files

\* ---------------------------------------------------------------- C37
\* C37: when the fetch of a document fails after the target file was opened
\* (an error or a timeout in mid-stream), no file remains at the target path,
\* so that a later download of the same ref with overwrite = false fetches it
\* again.  Stated of the files left by the last download_documents call.
C37_NoPartialFile ==
    \A i \in 1..Len(download_call.results) :
        LET r == download_call.results[i]
        IN download_call.outcome[r.document_info.url] = "partial"
           => /\ ~r.success
              /\ GetDocumentPath(r.document_info) \notin DOMAIN files

\* ---------------------------------------------------------------- C38
\* C38: the knowledge-base archiving performed during an update_document
\* operation for document D changes no knowledge-base entry that belongs to
\* another document, even when the other document has a version with the
\* same label.  Stated of the reconcile of each downloaded document on every
\* reachable state.
C38_ArchiveScoped ==
    \A u \in DOMAIN origin :
        Downloaded(u) =>
            LET v == ProcessDocumentUpdates(VmState, <<ResultOf(u)>>,
                                            <<[copy_ok |-> TRUE, ingest_ok |-> TRUE,
                                               second |-> 0]>>)
                op == v.report.operations[1]
            IN op.operation_type = "update_document"
               => \A e \in kb :
                      e.document_id # GenerateDocumentId(op.document_info)
                      => e \in v.vs.kb

\* ---------------------------------------------------------------- C39
\* C39: after a scheduled job (for example daily_naac_update) has executed,
\* get_job_list reports for that job id a last_run equal to the time of its
\* most recent execution and a last_result that reflects that execution's
\* outcome.  Stated of the step in which an execution of a job of the store
\* calls its function and logs the run.
C39_JobListReflectsRuns ==
    [][\A k \in 1..Len(scheduler.executions) :
          (/\ scheduler'.executions = AfterRun(scheduler.executions, k)
           /\ scheduler'.job_history # scheduler.job_history)
          => LET list == GetJobList(scheduler'.jobs, scheduler'.job_history)
                 run == Last(scheduler'.job_history)
             IN \A i \in 1..Len(list) :
                    list[i].job_id = scheduler.executions[k].job_id
                    => /\ list[i].last_run = <<run.timestamp>>
                       /\ list[i].last_result = <<run.success>>]_vars

====
